---- MODULE Spec2Model ----
(***************************************************************************)
(* Verification model of the claude-rag plugin: document chunking and     *)
(* ingestion, the Chroma-backed vector store, the retriever and its       *)
(* result cache, the MCP tool-call handler and the orchestrator.          *)
(*                                                                         *)
(* Text is modelled by its structure: a file is a non-empty sequence of   *)
(* lines (String.split on "\n" never returns an empty array), a line is   *)
(* its length and the one syntactic class the chunker looks at.  Sizes    *)
(* are scaled: chunkSize, chunkOverlap and maxFileSize keep the order     *)
(* chunkOverlap < chunkSize < maxFileSize of the defaults 200, 1000 and   *)
(* 1048576.                                                               *)
(***************************************************************************)
EXTENDS Integers, Sequences, FiniteSets, TLC

VARIABLES
    disk,        \* file system: path -> content (sequence of lines) or NoFile
    store,       \* Chroma collection: sequence of documents in insertion order
    fileHashes,  \* DocumentIngestionService.fileHashes: path -> hash or NoHash
    lastCall,    \* outcome of the most recent processFile call
    indexed,     \* history: path -> content whose chunks the last completed
                 \* processFile stored and nothing has removed since, or NoFile
    collection,  \* retrieval view of the Chroma collection: the documents held
    rcache,      \* retrieval CacheManager: <<key, value>> entries, least recently
                 \* used first
    rconfig,     \* configuration and environment the retriever was built with
    lastRetrieve,\* what the latest retrieve call returned, next to what the
                 \* same call computes when the cache is bypassed
    runs,        \* ingestDirectory calls: run -> position and options
    queue,       \* the service's PQueue: tasks in the order they were added
    stats,       \* run -> IngestionStats of that call
    vstore,      \* VectorStore: the initialized flag and whether collection is set
    servicesInitialized, \* the MCP server's lazy-initialization flag
    calls,       \* initialize() calls in progress: caller -> position
    created,     \* getOrCreateCollection requests issued since the last reset
                 \* that have not failed
    lastOp,      \* outcome of the latest completed VectorStore call
    lastResponse, \* the latest tools/call request and what the handler did with it
    plan,        \* Orchestrator: the OrchestratorPlan being processed
    orch,        \* Orchestrator: maxIterations, position in process() and the
                 \* locals of executePlan
    toolLoop,    \* BaseAgent.sendMessageWithTools: position and locals
    pcache,      \* PersistentEmbeddingCache: enabled, keys held, dirty, saveTimer
    cacheFile,   \* the keys in the cache file on disk
    saves,       \* saveToDisk executions in progress, per starter
    cacheLog,    \* time since the latest set, and the latest save or flush
    pdfStore,    \* hash of the PDF content the store holds for the URL
    lastPdf,     \* outcome of the latest ingestPDFFromURL / removePDF call
    fetches,     \* fetchAndParse calls: caller -> position and locals
    staging,     \* the staging file of the URL in the PDF cache directory
    embed,       \* generateEmbeddings call of a hosted provider: position, batches
                 \* and the attempts made for each batch request
    watch,       \* watch mode: this.watcher, the watchers attached, the process
    chunked,     \* a DocumentChunker call: its input and what it returned
    facade,      \* ClaudeRAG: the environment, the instance and its latest call
    race,        \* processFile calls in flight on the watched paths: caller ->
                 \* position and locals, and the content read last per path
    conversation \* BaseAgent.conversationHistory and the sendMessage calls
                 \* awaiting their completion

varsIngest == <<disk, store, fileHashes, lastCall, indexed>>

varsRetrieve == <<collection, rcache, rconfig, lastRetrieve>>

varsQueue == <<runs, queue, stats>>

varsStore == <<vstore, servicesInitialized, calls, created, lastOp>>

varsServer == <<lastResponse>>

varsPlan == <<plan, orch>>

varsAgent == <<toolLoop>>

varsCache == <<pcache, cacheFile, saves, cacheLog>>

varsPdf == <<pdfStore, lastPdf, fetches, staging>>

varsEmbed == <<embed>>

varsWatch == <<watch>>

varsChunk == <<chunked>>

varsFacade == <<facade>>

varsRace == <<race>>

varsHistory == <<conversation>>

vars == <<varsIngest, varsRetrieve, varsQueue, varsStore, varsServer, varsPlan,
          varsAgent, varsCache, varsPdf, varsEmbed, varsWatch, varsChunk, varsFacade,
          varsRace, varsHistory>>

----------------------------------------------------------------------------
(* Configuration (src/core/types.ts, ConfigSchema.ingestion), scaled.      *)

chunkSize == 4
chunkOverlap == 2
maxFileSize == 11

(* A content has at least one line and a hash is a pair, so the empty      *)
(* sequence stands for "no file" and "no hash".                            *)
NoFile == <<>>
NoHash == <<>>

Paths == {"a.ts", "b.md"}

fileTypeOf(p) == IF p = "a.ts" THEN ".ts" ELSE ".md"

Line(n, k) == [len |-> n, kind |-> k]

(* The contents a file can take.  Kinds: "plain"; "boundary" (a line the   *)
(* code patterns of findCodeBoundaries match); "heading" (/^#{1,6}\s/);    *)
(* "fence" (trimmed line starts with three backquotes).  a.ts: one chunk   *)
(* through the chunkText fallback, or two chunks split at a boundary.      *)
(* b.md: two chunks the first of which is the whole file, three chunks, or *)
(* a file larger than maxFileSize.                                         *)
ContentsOf(p) ==
    IF p = "a.ts"
    THEN { <<Line(2, "plain")>>,
           <<Line(3, "boundary"), Line(3, "boundary")>> }
    ELSE { <<Line(2, "heading"), Line(1, "plain")>>,
           <<Line(3, "plain"), Line(2, "heading"), Line(3, "plain")>>,
           <<Line(3, "plain"), Line(3, "plain"), Line(3, "plain"),
             Line(3, "plain")>> }

Contents == UNION {ContentsOf(p) : p \in Paths}

----------------------------------------------------------------------------
(* utils/hashing: sha256 is modelled as an injective tagging of its input. *)

hashContent(content) == <<"sha256", content>>

generateDocumentId(filePath, chunkIndex) == <<"id", filePath, chunkIndex>>

----------------------------------------------------------------------------
(* DocumentChunker                                                         *)

RECURSIVE SumLineSizes(_)
SumLineSizes(ls) ==
    IF ls = <<>> THEN 0
    ELSE ls[1].content.len + 1 + SumLineSizes(Tail(ls))

RECURSIVE getOverlapFrom(_, _, _, _)
getOverlapFrom(chunk, i, overlapSize, overlapLines) ==
    IF i < 1 THEN overlapLines
    ELSE LET lineSize == chunk[i].content.len + 1
         IN  IF overlapSize + lineSize > chunkOverlap THEN overlapLines
             ELSE getOverlapFrom(chunk, i - 1, overlapSize + lineSize,
                                 <<chunk[i]>> \o overlapLines)

getOverlapLines(chunk) ==
    IF chunkOverlap <= 0 THEN <<>>
    ELSE getOverlapFrom(chunk, Len(chunk), 0, <<>>)

(* chunks.push({content: currentChunk.map(l => l.content).join('\n'), ...}) *)
(* A chunk record whose startLine is the zero-based index of its first     *)
(* line.                                                                   *)
RawChunk_zeroBased(currentChunk, chunkStartLine) ==
    [content   |-> [j \in 1..Len(currentChunk) |-> currentChunk[j].content],
     startLine |-> chunkStartLine - 1,
     endLine   |-> currentChunk[Len(currentChunk)].lineNumber]

RawChunk(currentChunk, chunkStartLine) ==
    [content   |-> [j \in 1..Len(currentChunk) |-> currentChunk[j].content],
     startLine |-> chunkStartLine,
     endLine   |-> currentChunk[Len(currentChunk)].lineNumber]

RECURSIVE chunkTextLoop(_, _, _, _, _, _)
chunkTextLoop(lines, i, currentChunk, currentSize, chunkStartLine, chunks) ==
    IF i > Len(lines)
    THEN IF Len(currentChunk) > 0
         THEN Append(chunks, RawChunk(currentChunk, chunkStartLine))
         ELSE chunks
    ELSE LET cur  == Append(currentChunk, [content |-> lines[i], lineNumber |-> i])
             size == currentSize + lines[i].len + 1
         IN  IF size >= chunkSize
             THEN LET overlapLines == getOverlapLines(cur)
                  IN  chunkTextLoop(lines, i + 1, overlapLines,
                                    SumLineSizes(overlapLines),
                                    IF Len(overlapLines) > 0
                                    THEN overlapLines[1].lineNumber ELSE i + 1,
                                    Append(chunks, RawChunk(cur, chunkStartLine)))
             ELSE chunkTextLoop(lines, i + 1, cur, size, chunkStartLine, chunks)

(* chunkText returning nothing for a content without characters.           *)
chunkText_skipsEmpty(content) ==
    IF \A i \in 1..Len(content) : content[i].len = 0 THEN <<>>
    ELSE chunkTextLoop(content, 1, <<>>, 0, 1, <<>>)

chunkText(content) == chunkTextLoop(content, 1, <<>>, 0, 1, <<>>)

(* chunkMarkdown: split before a heading once the chunk holds 30% of       *)
(* chunkSize, force-split at chunkSize outside fenced code blocks.         *)
RECURSIVE chunkMarkdownLoop(_, _, _, _, _, _, _)
chunkMarkdownLoop(lines, i, currentChunk, currentSize, chunkStartLine, inCodeBlock, chunks) ==
    IF i > Len(lines)
    THEN IF Len(currentChunk) > 0
         THEN Append(chunks, RawChunk(currentChunk, chunkStartLine))
         ELSE chunks
    ELSE LET inCode    == IF lines[i].kind = "fence" THEN ~inCodeBlock ELSE inCodeBlock
             isHeading == lines[i].kind = "heading" /\ ~inCode
             split     == isHeading /\ Len(currentChunk) > 0
                          /\ 10 * currentSize >= 3 * chunkSize
             chunks1   == IF split
                          THEN Append(chunks, RawChunk(currentChunk, chunkStartLine))
                          ELSE chunks
             cur0      == IF split THEN <<>> ELSE currentChunk
             size0     == IF split THEN 0 ELSE currentSize
             start0    == IF split THEN i ELSE chunkStartLine
             cur       == Append(cur0, [content |-> lines[i], lineNumber |-> i])
             size      == size0 + lines[i].len + 1
         IN  IF size >= chunkSize /\ ~inCode
             THEN LET overlapLines == getOverlapLines(cur)
                  IN  chunkMarkdownLoop(lines, i + 1, overlapLines,
                                        SumLineSizes(overlapLines),
                                        IF Len(overlapLines) > 0
                                        THEN overlapLines[1].lineNumber ELSE i + 1,
                                        inCode,
                                        Append(chunks1, RawChunk(cur, start0)))
             ELSE chunkMarkdownLoop(lines, i + 1, cur, size, start0, inCode, chunks1)

chunkMarkdown(content) == chunkMarkdownLoop(content, 1, <<>>, 0, 1, FALSE, <<>>)

findCodeBoundaries(lines) == {i \in 1..Len(lines) : lines[i].kind = "boundary"}

(* chunkCode: split before a boundary once the chunk holds half of         *)
(* chunkSize, force-split at chunkSize; without boundaries fall back to    *)
(* chunkText.                                                              *)
RECURSIVE chunkCodeLoop(_, _, _, _, _, _, _)
chunkCodeLoop(lines, boundaries, i, currentChunk, currentSize, chunkStartLine, chunks) ==
    IF i > Len(lines)
    THEN IF Len(currentChunk) > 0
         THEN Append(chunks, RawChunk(currentChunk, chunkStartLine))
         ELSE chunks
    ELSE LET split    == i \in boundaries /\ Len(currentChunk) > 0
                         /\ 2 * currentSize >= chunkSize
             ov0      == getOverlapLines(currentChunk)
             chunks1  == IF split
                         THEN Append(chunks, RawChunk(currentChunk, chunkStartLine))
                         ELSE chunks
             cur0     == IF split THEN ov0 ELSE currentChunk
             size0    == IF split THEN SumLineSizes(ov0) ELSE currentSize
             start0   == IF split
                         THEN (IF Len(ov0) > 0 THEN ov0[1].lineNumber ELSE i)
                         ELSE chunkStartLine
             cur      == Append(cur0, [content |-> lines[i], lineNumber |-> i])
             size     == size0 + lines[i].len + 1
         IN  IF size >= chunkSize
             THEN LET overlapLines == getOverlapLines(cur)
                  IN  chunkCodeLoop(lines, boundaries, i + 1, overlapLines,
                                    SumLineSizes(overlapLines),
                                    IF Len(overlapLines) > 0
                                    THEN overlapLines[1].lineNumber ELSE i + 1,
                                    Append(chunks1, RawChunk(cur, start0)))
             ELSE chunkCodeLoop(lines, boundaries, i + 1, cur, size, start0, chunks1)

chunkCode(content) ==
    IF findCodeBoundaries(content) # {}
    THEN chunkCodeLoop(content, findCodeBoundaries(content), 1, <<>>, 0, 1, <<>>)
    ELSE chunkText(content)

isCodeFile(fileType) == fileType \in {".ts"}
isMarkdownFile(fileType) == fileType \in {".md", ".mdx"}

(* chunkDocument: strategy by file type; every chunk carries the hash of   *)
(* its own content (metadata.hash = hashContent(chunk.content)).           *)
chunkDocument(content, filePath, fileType) ==
    LET rawChunks == IF isCodeFile(fileType) THEN chunkCode(content)
                     ELSE IF isMarkdownFile(fileType) THEN chunkMarkdown(content)
                     ELSE chunkText(content)
    IN  [index \in 1..Len(rawChunks) |->
            [id       |-> generateDocumentId(filePath, index - 1),
             content  |-> rawChunks[index].content,
             metadata |-> [filePath    |-> filePath,
                           fileType    |-> fileType,
                           chunkIndex  |-> index - 1,
                           totalChunks |-> Len(rawChunks),
                           startLine   |-> rawChunks[index].startLine,
                           endLine     |-> rawChunks[index].endLine,
                           hash        |-> hashContent(rawChunks[index].content)]]]

----------------------------------------------------------------------------
(* VectorStore over the Chroma collection (initialized).                   *)

(* collection.get({where: {filePath: {$eq: filePath}}})                    *)
getDocumentsByFilePath(st, filePath) ==
    SelectSeq(st, LAMBDA d : d.metadata.filePath = filePath)

(* collection.delete({where: {filePath: {$eq: filePath}}})                 *)
deleteByFilePath(st, filePath) ==
    SelectSeq(st, LAMBDA d : d.metadata.filePath # filePath)

(* collection.add({ids, embeddings, documents, metadatas})                 *)
addDocuments(st, documents) == st \o documents

----------------------------------------------------------------------------
(* The parts of the state a specification does not exercise rest here.     *)

NoRetrieve == [op |-> "none"]

IdleIngest ==
    /\ disk = [p \in Paths |-> NoFile]
    /\ store = <<>>
    /\ fileHashes = [p \in Paths |-> NoHash]
    /\ lastCall = [op |-> "none"]
    /\ indexed = [p \in Paths |-> NoFile]

IdleRetrieve ==
    /\ collection = {}
    /\ rcache = <<>>
    /\ rconfig = [hybrid |-> TRUE, reranking |-> TRUE, anthropic |-> FALSE,
                  cacheEnabled |-> TRUE]
    /\ lastRetrieve = NoRetrieve

Runs == {1, 2}

(* IngestionStats; errors is kept as the number of entries per file.       *)
NoStats == [totalFiles |-> 0, processedFiles |-> 0, skippedFiles |-> 0,
            totalChunks |-> 0, errors |-> [f \in {} |-> 0]]

IdleQueue ==
    /\ runs = [r \in Runs |-> [pc |-> "idle", onProgress |-> "absent"]]
    /\ queue = <<>>
    /\ stats = [r \in Runs |-> NoStats]

(* Bound: the callers whose initialize() calls may overlap.                *)
MaxCallers == 2

Callers == 1..MaxCallers

NoOp == [op |-> "none"]

IdleStore ==
    /\ vstore = [initialized |-> FALSE, collection |-> FALSE]
    /\ servicesInitialized = FALSE
    /\ calls = [c \in Callers |-> [pc |-> "idle", via |-> "direct", counted |-> FALSE]]
    /\ created = 0
    /\ lastOp = NoOp

NoResponse == [tool |-> "none"]

IdleServer == lastResponse = NoResponse

(* agents.orchestrator.maxIterations, scaled from 10.                      *)
defaultMaxIterations == 3

NoPlan == [tasks |-> <<>>, strategy |-> "none", estimatedSteps |-> 0]

NoPlanning == [braced |-> FALSE, parses |-> FALSE, hasSteps |-> FALSE, steps |-> <<>>]

(* An Orchestrator constructed with the given maxIterations, before any    *)
(* process() call.                                                         *)
NewOrchestrator(m) ==
    [maxIterations |-> m, pc |-> "idle", planning |-> NoPlanning,
     i |-> 1, iterations |-> 0, retrievedDocuments |-> 0, analysis |-> FALSE,
     retrieverReturned |-> {}, analyzerCalls |-> 0, synthesizerCalls |-> 0,
     agentThrewAt |-> {}, threw |-> "none"]

IdlePlan ==
    /\ plan = NoPlan
    /\ orch = NewOrchestrator(defaultMaxIterations)

(* A BaseAgent before any sendMessageWithTools call.                       *)
NoToolLoop ==
    [pc |-> "idle", completions |-> 0, toolResults |-> 0, lastRole |-> "none",
     pendingTools |-> 0, stopReason |-> "none"]

IdleAgent == toolLoop = NoToolLoop

(* Bounds: keys an embedding may be cached under; concurrent fetchAndParse *)
(* calls for the URL.                                                      *)
CacheKeys == {"k1", "k2"}
MaxFetchers == 2

Fetchers == 1..MaxFetchers

NoSave == [pc |-> "idle", snapshot |-> {}]

NoCacheEvent == [kind |-> "none"]

(* A PersistentEmbeddingCache constructed with no cache file on disk.      *)
IdleCache ==
    /\ pcache = [enabled |-> TRUE, keys |-> {}, dirty |-> FALSE, saveTimer |-> -1]
    /\ cacheFile = {}
    /\ saves = [w \in {"timer", "flush"} |-> NoSave]
    /\ cacheLog = [sinceSet |-> 0, last |-> NoCacheEvent]

(* given: whether options.maxSizeMB is absent, present with the value      *)
(* undefined, or a number (value).  declared: the content-length header in *)
(* MB, 0 when there is none.  created: this call opened the staging file.  *)
(* elapsed: time since the call issued its network request, in units of    *)
(* 60,000 ms, while the request is in flight.                              *)
NoFetch ==
    [pc |-> "idle", given |-> "absent", value |-> 0, declared |-> 0,
     created |-> FALSE, outcome |-> "none", elapsed |-> 0]

NoPdfCall == [op |-> "none"]

IdlePdf ==
    /\ pdfStore = "none"
    /\ lastPdf = NoPdfCall
    /\ fetches = [c \in Fetchers |-> NoFetch]
    /\ staging = "absent"

NoEmbed ==
    [pc |-> "idle", texts |-> 0, batch |-> 0, attempts |-> <<>>, produced |-> 0]

IdleEmbed == embed = NoEmbed

(* watcher: this.watcher, 0 for null, else the id of a watcher.  attached: *)
(* the watchers created and not closed.  started: watchers created so far. *)
(* running: the process is alive.  inflight: the handlers awaiting their   *)
(* ingestFile or removeFile call, by event.  handled: file events whose    *)
(* handler ran to completion.  last: the latest call or event and how it   *)
(* ended.                                                                  *)
NoWatch ==
    [watcher |-> 0, attached |-> {}, started |-> 0, running |-> TRUE,
     inflight |-> <<>>, handled |-> 0, last |-> "none"]

IdleWatch == watch = NoWatch

NoChunking == [op |-> "none"]

IdleChunk == chunked = NoChunking

(* env: the API keys set in the environment.  instance: whether           *)
(* new ClaudeRAG() has run and how it ended.  initialized: the facade's    *)
(* own flag.  op, fail, threw, error: the latest call, the failure it met  *)
(* and how it ended.                                                       *)
NoFacade ==
    [env |-> {}, instance |-> "none", initialized |-> FALSE,
     op |-> "none", fail |-> "none", threw |-> FALSE, error |-> "none"]

IdleFacade == facade = NoFacade

(* processFile calls in flight.  pc: idle, read (stat and readFile done),  *)
(* deleted (deleteByFilePath done), done.  lastRead: per path, the content *)
(* the latest readFile of a call returned.                                 *)
MaxProcs == 2

Procs == 1..MaxProcs

NoProc == [pc |-> "idle", path |-> "none", content |-> NoFile, threw |-> FALSE]

NoRace == [procs |-> [c \in Procs |-> NoProc], lastRead |-> [p \in Paths |-> NoFile]]

IdleRace == race = NoRace

(* history: the roles and texts of conversationHistory.  awaiting: the     *)
(* sendMessage calls whose completion request has not settled.  threw: how *)
(* the latest sendMessage call ended.                                      *)
NoConversation == [history |-> <<>>, awaiting |-> 0, threw |-> "none"]

IdleHistory == conversation = NoConversation

IdleRest == IdleEmbed /\ IdleWatch /\ IdleChunk /\ IdleFacade /\ IdleRace /\ IdleHistory

----------------------------------------------------------------------------
(* DocumentIngestionService.processFile                                    *)

RECURSIVE SumLens(_)
SumLens(c) == IF c = <<>> THEN 0 ELSE c[1].len + SumLens(Tail(c))

(* fileStat.size: the characters of the lines and the newlines between.    *)
FileSize(content) == SumLens(content) + Len(content) - 1

(* Where an awaited call of processFile may reject.                        *)
FailPoints == {"none", "stat", "read", "get", "delete", "embed", "add"}

Outcome(st, fh, threw, skipped, n) ==
    [store |-> st, fileHashes |-> fh,
     result |-> [threw |-> threw, skipped |-> skipped, chunks |-> n]]

processFile(filePath, forceReindex, fail, dsk, st, fh) ==
    LET content      == dsk[filePath]
        contentHash  == hashContent(content)
        existingDocs == getDocumentsByFilePath(st, filePath)
        deleted      == deleteByFilePath(st, filePath)
        chunks       == chunkDocument(content, filePath, fileTypeOf(filePath))
    IN  IF fail = "stat" \/ content = NoFile
          THEN Outcome(st, fh, TRUE, FALSE, 0)
        ELSE IF FileSize(content) > maxFileSize
          THEN Outcome(st, fh, FALSE, TRUE, 0)
        ELSE IF fail = "read"
          THEN Outcome(st, fh, TRUE, FALSE, 0)
        ELSE IF ~forceReindex /\ fh[filePath] = contentHash
          THEN Outcome(st, fh, FALSE, TRUE, 0)
        ELSE IF ~forceReindex /\ fail = "get"
          THEN Outcome(st, fh, TRUE, FALSE, 0)
        ELSE IF ~forceReindex /\ Len(existingDocs) > 0
                /\ existingDocs[1].metadata.hash = contentHash
          THEN Outcome(st, [fh EXCEPT ![filePath] = contentHash], FALSE, TRUE, 0)
        ELSE IF fail = "delete"
          THEN Outcome(st, fh, TRUE, FALSE, 0)
        ELSE IF Len(chunks) = 0
          THEN Outcome(deleted, fh, FALSE, TRUE, 0)
        ELSE IF fail \in {"embed", "add"}
          THEN Outcome(deleted, fh, TRUE, FALSE, 0)
        ELSE Outcome(addDocuments(deleted, chunks),
                     [fh EXCEPT ![filePath] = contentHash],
                     FALSE, FALSE, Len(chunks))

(* One processFile call and the bookkeeping of what it did.                *)
CallProcessFile(op, p, force, fail) ==
    LET out == processFile(p, force, fail, disk, store, fileHashes)
    IN  /\ store' = out.store
        /\ fileHashes' = out.fileHashes
        /\ lastCall' = [op        |-> op,
                        path      |-> p,
                        force     |-> force,
                        threw     |-> out.result.threw,
                        skipped   |-> out.result.skipped,
                        chunks    |-> out.result.chunks,
                        unchanged |-> disk[p] # NoFile /\ indexed[p] = disk[p],
                        fresh     |-> indexed[p] = NoFile
                                      /\ getDocumentsByFilePath(store, p) = <<>>
                                      /\ fileHashes[p] = NoHash,
                        tableHit  |-> fileHashes[p] # NoHash,
                        sizeOk    |-> disk[p] # NoFile /\ FileSize(disk[p]) <= maxFileSize,
                        nChunks   |-> IF disk[p] = NoFile THEN 0
                                      ELSE Len(chunkDocument(disk[p], p, fileTypeOf(p))),
                        added     |-> Len(out.store) - Len(deleteByFilePath(store, p)),
                        storeSame |-> out.store = store]
        /\ indexed' = [indexed EXCEPT ![p] =
                          IF ~out.result.threw /\ ~out.result.skipped THEN disk[p]
                          ELSE IF getDocumentsByFilePath(out.store, p)
                                  = getDocumentsByFilePath(store, p) THEN indexed[p]
                          ELSE NoFile]
        /\ UNCHANGED <<disk, varsRetrieve, varsQueue, varsStore, varsServer, varsPlan, varsAgent, varsCache, varsPdf,
                   varsEmbed, varsWatch, varsChunk, varsFacade, varsRace, varsHistory>>

(* The task ingestDirectory queues for one matched file.                   *)
DirectoryProcessFile(p, force, fail) ==
    CallProcessFile("ingestDirectory", p, force, fail)

(* ingestFile: processFile with forceReindex: true.                        *)
ingestFile(p, fail) ==
    CallProcessFile("ingestFile", p, TRUE, fail)

NoCall == [op |-> "none"]

removeFile(p) ==
    /\ store' = deleteByFilePath(store, p)
    /\ fileHashes' = [fileHashes EXCEPT ![p] = NoHash]
    /\ indexed' = [indexed EXCEPT ![p] = NoFile]
    /\ lastCall' = NoCall
    /\ UNCHANGED <<disk, varsRetrieve, varsQueue, varsStore, varsServer, varsPlan, varsAgent, varsCache, varsPdf,
                   varsEmbed, varsWatch, varsChunk, varsFacade, varsRace, varsHistory>>

(* The user edits, creates or deletes a file.                              *)
WriteFile(p, c) ==
    /\ disk[p] # c
    /\ disk' = [disk EXCEPT ![p] = c]
    /\ lastCall' = NoCall
    /\ UNCHANGED <<store, fileHashes, indexed, varsRetrieve, varsQueue, varsStore, varsServer, varsPlan, varsAgent, varsCache, varsPdf,
                   varsEmbed, varsWatch, varsChunk, varsFacade, varsRace, varsHistory>>

(* The process exits and a new one starts: the in-memory table is empty,   *)
(* the collection persists.                                                *)
Restart ==
    /\ fileHashes' = [p \in Paths |-> NoHash]
    /\ lastCall' = NoCall
    /\ UNCHANGED <<disk, store, indexed, varsRetrieve, varsQueue, varsStore, varsServer, varsPlan, varsAgent, varsCache, varsPdf,
                   varsEmbed, varsWatch, varsChunk, varsFacade, varsRace, varsHistory>>

(* ClaudeRAG.clear -> VectorStore.deleteCollection: the collection is      *)
(* dropped; the ingestion service's hash table is not touched.             *)
facadeClear ==
    /\ store # <<>>
    /\ store' = <<>>
    /\ indexed' = [p \in Paths |-> NoFile]
    /\ lastCall' = NoCall
    /\ UNCHANGED <<disk, fileHashes, varsRetrieve, varsQueue, varsStore, varsServer,
                   varsPlan, varsAgent, varsCache, varsPdf,
                   varsEmbed, varsWatch, varsChunk, varsFacade, varsRace, varsHistory>>

InitIngest ==
    /\ disk \in [Paths -> Contents]
    /\ \A p \in Paths : disk[p] \in ContentsOf(p)
    /\ store = <<>>
    /\ fileHashes = [p \in Paths |-> NoHash]
    /\ lastCall = NoCall
    /\ indexed = [p \in Paths |-> NoFile]
    /\ IdleRetrieve
    /\ IdleQueue
    /\ IdleStore
    /\ IdleServer
    /\ IdlePlan
    /\ IdleAgent
    /\ IdleCache
    /\ IdlePdf
    /\ IdleRest

NextIngest ==
    \/ \E p \in Paths, force \in BOOLEAN, fail \in FailPoints :
          DirectoryProcessFile(p, force, fail)
    \/ \E p \in Paths, fail \in FailPoints : ingestFile(p, fail)
    \/ \E p \in Paths : removeFile(p)
    \/ \E p \in Paths : \E c \in ContentsOf(p) : WriteFile(p, c)
    \/ Restart
    \/ facadeClear

SpecIngest == InitIngest /\ [][NextIngest]_vars

(* C1: the same unchanged file (within maxFileSize) ingested again without *)
(* forceReindex is skipped and adds no chunk, also when the in-memory hash *)
(* table was lost in between; the first ingestion of a file is not skipped *)
(* and stores its N >= 1 chunks.                                           *)
C1_IngestTwiceProcessesOnce ==
    (lastCall.op = "ingestDirectory" /\ ~lastCall.force /\ ~lastCall.threw
       /\ lastCall.sizeOk) =>
        /\ lastCall.unchanged =>
              lastCall.skipped /\ lastCall.chunks = 0 /\ lastCall.storeSame
        /\ lastCall.fresh =>
              ~lastCall.skipped /\ lastCall.chunks = lastCall.nChunks
              /\ lastCall.nChunks >= 1 /\ lastCall.added = lastCall.nChunks

----------------------------------------------------------------------------
(* IntelligentRetriever.  Scores are exact fractions n/d.                  *)

RECURSIVE GCD(_, _)
GCD(a, b) == IF b = 0 THEN a ELSE GCD(b, a % b)

(* Fractions are kept in lowest terms.                                     *)
Frac(n, d) == [n |-> n \div GCD(n, d), d |-> d \div GCD(n, d)]
FracAdd(a, b) == Frac(a.n * b.d + b.n * a.d, a.d * b.d)
FracGE(a, b) == a.n * b.d >= b.n * a.d
FracGT(a, b) == a.n * b.d > b.n * a.d

Docs == {"D1", "D2", "D3"}
Queries == {"q1", "q2"}
NoFilter == "none"

docFileType(d) == IF d = "D3" THEN ".md" ELSE ".ts"

(* 100 * (1 - distance) of a document's embedding to the query's.          *)
similarity(d, q) ==
    IF q = "q1" THEN (CASE d = "D1" -> 90 [] d = "D2" -> 80 [] OTHER -> 60)
    ELSE (CASE d = "D1" -> 50 [] d = "D2" -> 85 [] OTHER -> 75)

(* 100 * matches / sqrt(content.length) of calculateKeywordScore.          *)
calculateKeywordScore(d, q) ==
    IF q = "q1" THEN (CASE d = "D1" -> 0 [] d = "D2" -> 30 [] OTHER -> 50)
    ELSE (CASE d = "D1" -> 40 [] d = "D2" -> 0 [] OTHER -> 0)

(* Retrieval configuration.  rerankTopN and cacheMaxSize are scaled (5 and *)
(* 1000 in the defaults).                                                  *)
rrfK == 60
semanticWeight == Frac(7, 10)
keywordWeight == Frac(3, 10)
rerankTopN == 2
cacheMaxSize == 2

Take(seq, n) == SubSeq(seq, 1, IF n < Len(seq) THEN n ELSE Len(seq))

(* Array.prototype.sort((a, b) => b.score - a.score): stable, descending.  *)
RECURSIVE InsertByScore(_, _)
InsertByScore(sorted, x) ==
    IF sorted = <<>> THEN <<x>>
    ELSE IF FracGE(sorted[1].score, x.score)
         THEN <<sorted[1]>> \o InsertByScore(Tail(sorted), x)
         ELSE <<x>> \o sorted

RECURSIVE SortByScore(_)
SortByScore(seq) ==
    IF seq = <<>> THEN <<>>
    ELSE InsertByScore(SortByScore(SubSeq(seq, 1, Len(seq) - 1)), seq[Len(seq)])

RECURSIVE NearestFirst(_, _, _)
NearestFirst(S, q, n) ==
    IF S = {} \/ n <= 0 THEN <<>>
    ELSE LET best == CHOOSE d \in S : \A e \in S : similarity(d, q) >= similarity(e, q)
         IN  <<[id |-> best, score |-> Frac(similarity(best, q), 100)]>>
             \o NearestFirst(S \ {best}, q, n - 1)

(* VectorStore.query: the nResults nearest documents passing the filter.   *)
vectorStoreQuery(coll, q, nResults, filters) ==
    NearestFirst({d \in coll : filters = NoFilter \/ docFileType(d) = filters},
                 q, nResults)

semanticSearch(coll, q, topK, filters) == vectorStoreQuery(coll, q, topK, filters)

keywordSearch(coll, q, topK, filters) ==
    LET results == vectorStoreQuery(coll, q, topK * 3, filters)
        scored  == [i \in 1..Len(results) |->
                      [id |-> results[i].id,
                       score |-> Frac(calculateKeywordScore(results[i].id, q), 100)]]
        matched == SelectSeq(scored, LAMBDA r : FracGT(r.score, Frac(0, 1)))
    IN  Take(SortByScore(matched), topK)

RankOf(seq, id) ==
    IF \E i \in 1..Len(seq) : seq[i].id = id
    THEN CHOOSE i \in 1..Len(seq) : seq[i].id = id
    ELSE 0

(* A contribution that ignores the list's weight.                          *)
rrf_unweighted(weight, position) == Frac(1, rrfK + position)

(* weight / (k + rank + 1) for the zero-based rank = position - 1.         *)
rrf(weight, position) == Frac(weight.n, weight.d * (rrfK + position))

reciprocalRankFusion(semanticResults, keywordResults, topK) ==
    LET fromSemantic ==
            [i \in 1..Len(semanticResults) |->
               [id |-> semanticResults[i].id,
                score |-> IF RankOf(keywordResults, semanticResults[i].id) > 0
                          THEN FracAdd(rrf(semanticWeight, i),
                                       rrf(keywordWeight,
                                           RankOf(keywordResults, semanticResults[i].id)))
                          ELSE rrf(semanticWeight, i)]]
        keywordOnly ==
            SelectSeq([j \in 1..Len(keywordResults) |->
                         [id |-> keywordResults[j].id,
                          score |-> rrf(keywordWeight, j)]],
                      LAMBDA r : RankOf(semanticResults, r.id) = 0)
    IN  Take(SortByScore(fromSemantic \o keywordOnly), topK)

hybridSearch(coll, q, topK, filters) ==
    reciprocalRankFusion(semanticSearch(coll, q, topK * 2, filters),
                         keywordSearch(coll, q, topK * 2, filters),
                         topK)

(* What the re-ranking model may answer: the call throws, the first block  *)
(* is not text, the text holds no bracketed list, the bracketed text is    *)
(* not JSON ("[1,,2]"), or a list of numbers.                              *)
Rankings == { <<>>, <<2, 1>>, <<1, 1, 3>>, <<0, 4, 2>> }
RerankResponses ==
    [kind : {"throw", "nontext", "nomatch", "badjson"}, ranking : {<<>>}]
    \cup [kind : {"list"}, ranking : Rankings]

RECURSIVE applyRanking(_, _, _, _)
applyRanking(ranking, results, topN, reranked) ==
    IF ranking = <<>> THEN reranked
    ELSE LET index == ranking[1] - 1
             next  == IF index >= 0 /\ index < Len(results)
                      THEN Append(reranked, results[index + 1])
                      ELSE reranked
         IN  IF Len(next) >= topN THEN next
             ELSE applyRanking(Tail(ranking), results, topN, next)

(* A rerank that gives up the results when the ranking cannot be read.     *)
rerank_noFallback(results, topN, anthropic, response) ==
    IF ~anthropic \/ Len(results) = 0 THEN Take(results, topN)
    ELSE IF response.kind # "list" THEN <<>>
    ELSE applyRanking(response.ranking, results, topN, <<>>)

rerank(results, topN, anthropic, response) ==
    IF ~anthropic \/ Len(results) = 0 THEN Take(results, topN)
    ELSE IF response.kind # "list" THEN Take(results, topN)
    ELSE LET reranked == applyRanking(response.ranking, results, topN, <<>>)
         IN  [i \in 1..Len(reranked) |->
                [id |-> reranked[i].id,
                 score |-> Frac(Len(reranked) - (i - 1), Len(reranked))]]

(* retrieve past the cache lookup: search, minScore filter, rerank.        *)
computeResults(coll, cfg, query, response) ==
    LET found    == IF cfg.hybrid
                    THEN hybridSearch(coll, query.query, query.topK, query.filters)
                    ELSE semanticSearch(coll, query.query, query.topK, query.filters)
        filtered == SelectSeq(found, LAMBDA r : FracGE(r.score, Frac(query.minScore, 100)))
    IN  IF query.rerank /\ cfg.reranking /\ cfg.anthropic
        THEN rerank(filtered, rerankTopN, cfg.anthropic, response)
        ELSE filtered

(* hashContent(JSON.stringify({query, topK, filters}))                     *)
cacheKey(query) == hashContent(<<query.query, query.topK, query.filters>>)

(* CacheManager over LRUCache.                                             *)
cacheHas(c, key) == \E i \in 1..Len(c) : c[i][1] = key
cacheValue(c, key) == (CHOOSE i \in 1..Len(c) : c[i][1] = key)
cacheRemove(c, key) == SelectSeq(c, LAMBDA e : e[1] # key)

(* get: a hit makes the entry the most recently used.                      *)
cacheGet(c, key) ==
    cacheRemove(c, key) \o <<c[cacheValue(c, key)]>>

(* set: insert as most recently used, evict the least recently used past   *)
(* the capacity.                                                           *)
cacheSet(c, key, value) ==
    LET put == Append(cacheRemove(c, key), <<key, value>>)
    IN  IF Len(put) > cacheMaxSize THEN Tail(put) ELSE put

TopKs == {1, 2}
MinScores == {1, 70}
FilterValues == {NoFilter, ".md"}

RetrievalQueries ==
    [query : {"q1"}, topK : TopKs, minScore : MinScores,
     rerank : BOOLEAN, filters : FilterValues]

(* The re-ranking answers the retrieval specification draws from.          *)
RetrieveResponses ==
    { [kind |-> "nomatch", ranking |-> <<>>],
      [kind |-> "list", ranking |-> <<2, 1>>] }

retrieve(query, response) ==
    LET key   == cacheKey(query)
        hit   == rconfig.cacheEnabled /\ cacheHas(rcache, key)
        fresh == computeResults(collection, rconfig, query, response)
    IN  /\ lastRetrieve' = [op       |-> "retrieve",
                            query    |-> query,
                            hit      |-> hit,
                            result   |-> IF hit THEN rcache[cacheValue(rcache, key)][2]
                                         ELSE fresh,
                            uncached |-> fresh]
        /\ rcache' = IF hit THEN cacheGet(rcache, key)
                     ELSE IF rconfig.cacheEnabled THEN cacheSet(rcache, key, fresh)
                     ELSE rcache
        /\ UNCHANGED <<collection, rconfig, varsIngest, varsQueue, varsStore, varsServer, varsPlan, varsAgent, varsCache, varsPdf,
                   varsEmbed, varsWatch, varsChunk, varsFacade, varsRace, varsHistory>>

(* Ingestion adds the chunks of a file to the collection.                  *)
IndexDocument(d) ==
    /\ d \notin collection
    /\ collection' = collection \cup {d}
    /\ lastRetrieve' = NoRetrieve
    /\ UNCHANGED <<rcache, rconfig, varsIngest, varsQueue, varsStore, varsServer, varsPlan, varsAgent, varsCache, varsPdf,
                   varsEmbed, varsWatch, varsChunk, varsFacade, varsRace, varsHistory>>

(* removeFile / re-ingestion deletes the chunks of a file.                 *)
RemoveDocument(d) ==
    /\ d \in collection
    /\ collection' = collection \ {d}
    /\ lastRetrieve' = NoRetrieve
    /\ UNCHANGED <<rcache, rconfig, varsIngest, varsQueue, varsStore, varsServer, varsPlan, varsAgent, varsCache, varsPdf,
                   varsEmbed, varsWatch, varsChunk, varsFacade, varsRace, varsHistory>>

(* An entry older than the TTL is dropped.                                 *)
ExpireEntry(i) ==
    /\ i \in 1..Len(rcache)
    /\ rcache' = cacheRemove(rcache, rcache[i][1])
    /\ lastRetrieve' = NoRetrieve
    /\ UNCHANGED <<collection, rconfig, varsIngest, varsQueue, varsStore, varsServer, varsPlan, varsAgent, varsCache, varsPdf,
                   varsEmbed, varsWatch, varsChunk, varsFacade, varsRace, varsHistory>>

RetrieveConfigs ==
    { [hybrid |-> TRUE,  reranking |-> TRUE, anthropic |-> FALSE, cacheEnabled |-> TRUE],
      [hybrid |-> FALSE, reranking |-> TRUE, anthropic |-> TRUE,  cacheEnabled |-> TRUE],
      [hybrid |-> TRUE,  reranking |-> TRUE, anthropic |-> TRUE,  cacheEnabled |-> FALSE] }

InitRetrieve ==
    /\ collection = {}
    /\ rcache = <<>>
    /\ rconfig \in RetrieveConfigs
    /\ lastRetrieve = NoRetrieve
    /\ IdleIngest
    /\ IdleQueue
    /\ IdleStore
    /\ IdleServer
    /\ IdlePlan
    /\ IdleAgent
    /\ IdleCache
    /\ IdlePdf
    /\ IdleRest

NextRetrieve ==
    \/ \E query \in RetrievalQueries, response \in RetrieveResponses :
          retrieve(query, response)
    \/ \E d \in Docs : IndexDocument(d)
    \/ \E d \in Docs : RemoveDocument(d)
    \/ \E i \in 1..cacheMaxSize : ExpireEntry(i)

SpecRetrieve == InitRetrieve /\ [][NextRetrieve]_vars

(* C2: the retrieval cache is never authoritative: every retrieve call     *)
(* returns the list the same call returns with the cache disabled.         *)
C2_CacheNeverAuthoritative ==
    lastRetrieve.op = "retrieve" => lastRetrieve.result = lastRetrieve.uncached

----------------------------------------------------------------------------
(* DocumentIngestionService.ingestDirectory over the service's PQueue.     *)
(* processFile is represented by what it hands back to the queued task:    *)
(* {skipped: true, chunks: 0}, {skipped: false, chunks: n} or an           *)
(* exception.  A progress callback that returns behaves as an absent one. *)

concurrency == 5

(* Bounds: the files one ingestDirectory call matches, and those of a      *)
(* second call overlapping it.                                             *)
MaxFiles == 4
MaxOverlapFiles == 2

MaxFilesOf(r) == IF r = 1 THEN MaxFiles ELSE MaxOverlapFiles

(* result.chunks of a processed file.                                      *)
chunksOfFile(f) == 1 + (f % 2)

Outcomes == {"skipped", "processed", "threw"}

Running(q) == {i \in 1..Len(q) : q[i].status = "running"}

(* Variant: the limit test admits one task too many.                       *)
mayStartAnother_offByOne(q) == Cardinality(Running(q)) <= concurrency

(* PQueue starts a pending task while fewer than `concurrency` run.        *)
mayStartAnother(q) == Cardinality(Running(q)) < concurrency

RECURSIVE tryToStartAnother(_)
tryToStartAnother(q) ==
    LET pending == {i \in 1..Len(q) : q[i].status = "queued"}
    IN  IF pending = {} \/ ~mayStartAnother(q) THEN q
        ELSE LET first == CHOOSE i \in pending : \A j \in pending : i <= j
             IN  tryToStartAnother([q EXCEPT ![first].status = "running"])

(* queue.add for every matched file, in order.                             *)
RECURSIVE addAll(_, _, _, _)
addAll(q, r, f, n) ==
    IF f > n THEN q
    ELSE addAll(tryToStartAnother(
                    Append(q, [run |-> r, file |-> f, status |-> "queued",
                               outcome |-> "none", entered |-> FALSE])),
                r, f + 1, n)

MarkEntered(q) ==
    [i \in 1..Len(q) |->
        IF q[i].status = "running" THEN [q[i] EXCEPT !.entered = TRUE] ELSE q[i]]

(* The body of the queued task after processFile settled: the counters,    *)
(* the progress callback, and the catch around both.                       *)
errorsPush(errors, file) ==
    [f \in DOMAIN errors \cup {file} |->
        IF f = file THEN (IF f \in DOMAIN errors THEN errors[f] + 1 ELSE 1)
        ELSE errors[f]]

RECURSIVE SumOver(_, _)
SumOver(fn, S) ==
    IF S = {} THEN 0
    ELSE LET x == CHOOSE y \in S : TRUE IN fn[x] + SumOver(fn, S \ {x})

errorsLength(errors) == SumOver(errors, DOMAIN errors)

(* Variant: the catch swallows the failure without recording it.          *)
taskBody_unrecorded(st, file, outcome, onProgress) ==
    IF outcome = "threw"
    THEN st
    ELSE IF outcome = "skipped"
         THEN [st EXCEPT !.skippedFiles = @ + 1]
         ELSE [st EXCEPT !.processedFiles = @ + 1,
                         !.totalChunks = @ + chunksOfFile(file)]

taskBody(st, file, outcome, onProgress) ==
    IF outcome = "threw"
    THEN [st EXCEPT !.errors = errorsPush(@, file)]
    ELSE LET counted ==
                 IF outcome = "skipped"
                 THEN [st EXCEPT !.skippedFiles = @ + 1]
                 ELSE [st EXCEPT !.processedFiles = @ + 1,
                                 !.totalChunks = @ + chunksOfFile(file)]
         IN  IF onProgress = "throws"
             THEN [counted EXCEPT !.errors = errorsPush(@, file)]
             ELSE counted

(* ingestDirectory up to and including the queue.add calls; it rejects     *)
(* when glob or vectorStore.initialize() rejects.                          *)
ingestDirectory(r, n, onProgress, setupFails) ==
    /\ runs[r].pc = "idle"
    /\ IF setupFails
       THEN /\ runs' = [runs EXCEPT ![r] = [pc |-> "rejected", onProgress |-> onProgress]]
            /\ UNCHANGED <<queue, stats>>
       ELSE /\ runs' = [runs EXCEPT ![r] = [pc |-> "active", onProgress |-> onProgress]]
            /\ stats' = [stats EXCEPT ![r] = [NoStats EXCEPT !.totalFiles = n]]
            /\ queue' = MarkEntered(addAll(queue, r, 1, n))
    /\ UNCHANGED <<varsIngest, varsRetrieve, varsStore, varsServer, varsPlan, varsAgent, varsCache, varsPdf,
                   varsEmbed, varsWatch, varsChunk, varsFacade, varsRace, varsHistory>>

(* One running task settles: processFile returned or threw, the task body  *)
(* ran, and the queue starts the next pending task.                        *)
TaskSettles(i, outcome) ==
    /\ i \in 1..Len(queue)
    /\ queue[i].status = "running"
    /\ stats' = [stats EXCEPT ![queue[i].run] =
                    taskBody(@, queue[i].file, outcome, runs[queue[i].run].onProgress)]
    /\ queue' = MarkEntered(tryToStartAnother(
                    [queue EXCEPT ![i].status = "done", ![i].outcome = outcome]))
    /\ UNCHANGED <<runs, varsIngest, varsRetrieve, varsStore, varsServer, varsPlan, varsAgent, varsCache, varsPdf,
                   varsEmbed, varsWatch, varsChunk, varsFacade, varsRace, varsHistory>>

(* await Promise.all(processPromises) resolves; ingestDirectory returns.   *)
ingestDirectoryReturns(r) ==
    /\ runs[r].pc = "active"
    /\ \A i \in 1..Len(queue) : queue[i].run = r => queue[i].status = "done"
    /\ runs' = [runs EXCEPT ![r].pc = "returned"]
    /\ UNCHANGED <<queue, stats, varsIngest, varsRetrieve, varsStore, varsServer, varsPlan, varsAgent, varsCache, varsPdf,
                   varsEmbed, varsWatch, varsChunk, varsFacade, varsRace, varsHistory>>

InitQueue == IdleQueue /\ IdleIngest /\ IdleRetrieve /\ IdleStore /\ IdleServer /\ IdlePlan /\ IdleAgent /\ IdleRest
    /\ IdleCache /\ IdlePdf

NextQueue ==
    \/ \E r \in Runs : \E n \in 0..MaxFilesOf(r) :
          \E onProgress \in {"absent", "throws"}, setupFails \in BOOLEAN :
             ingestDirectory(r, n, onProgress, setupFails)
    \/ \E i \in 1..(MaxFiles + MaxOverlapFiles), outcome \in Outcomes :
          TaskSettles(i, outcome)
    \/ \E r \in Runs : ingestDirectoryReturns(r)

SpecQueue == InitQueue /\ [][NextQueue]_vars

TasksOf(r) == {i \in 1..Len(queue) : queue[i].run = r}

CountIn(errors, file) == IF file \in DOMAIN errors THEN errors[file] ELSE 0

(* C3: a file whose processing fails is recorded as one entry of           *)
(* stats.errors, every other matched file is still processed, and the      *)
(* call does not reject because of it.                                     *)
C3_FileFailureContained ==
    \A r \in Runs :
       /\ runs[r].pc = "returned" =>
             /\ Cardinality(TasksOf(r)) = stats[r].totalFiles
             /\ \A i \in TasksOf(r) :
                   /\ queue[i].status = "done" /\ queue[i].entered
                   /\ queue[i].outcome = "threw" =>
                         CountIn(stats[r].errors, queue[i].file) = 1
       /\ runs[r].pc = "rejected" => TasksOf(r) = {}

C3_Witness ==
    \E r \in Runs :
       /\ runs[r].pc = "returned"
       /\ \E i, j \in TasksOf(r) :
             /\ queue[i].outcome = "threw"
             /\ queue[j].outcome = "processed"
             /\ i < j

(* C7: when ingestDirectory returns every matched file has been counted    *)
(* exactly once: processedFiles + skippedFiles + errors.length equals      *)
(* totalFiles.                                                             *)
C7_EveryFileCountedOnce ==
    \A r \in Runs :
       runs[r].pc = "returned" =>
          stats[r].processedFiles + stats[r].skippedFiles + errorsLength(stats[r].errors)
             = stats[r].totalFiles

(* C8: at most 5 files are inside processFile at any moment, over all      *)
(* overlapping ingestDirectory runs of the service.                        *)
C8_AtMostFiveInProcessFile ==
    Cardinality(Running(queue)) <= 5

C8_Witness ==
    /\ Cardinality(Running(queue)) = 5
    /\ \E i \in 1..Len(queue) : queue[i].status = "queued"
    /\ \E i, j \in Running(queue) : queue[i].run # queue[j].run

----------------------------------------------------------------------------
(* VectorStore bring-up and guards.  An initialize() call runs up to its   *)
(* await of getOrCreateCollection in one step and resumes when the         *)
(* database answers; other calls run in between.                           *)

(* Bound on the requests counted, to keep the state space finite.          *)
MaxCreated == 3

(* if (this.initialized) return;                                           *)
initializeReturnsEarly(vs) == vs.initialized

(* if (!this.initialized || !this.collection) throw NotInitialized         *)
ensureInitialized(vs) == vs.initialized /\ vs.collection

(* initialize(), called directly (ingestion, retriever, facade) or through *)
(* the server's ensureInitialized(), up to the first await.                *)
initializeBegins(c, via) ==
    /\ calls[c].pc = "idle"
    /\ created < MaxCreated
    /\ IF via = "server" /\ servicesInitialized
       THEN /\ lastOp' = [op |-> "initialize", via |-> via, noop |-> TRUE,
                          threw |-> FALSE, error |-> "none", sentRequest |-> FALSE,
                          initializedBefore |-> vstore.initialized]
            /\ UNCHANGED <<vstore, servicesInitialized, calls, created>>
       ELSE IF initializeReturnsEarly(vstore)
       THEN /\ servicesInitialized' = (servicesInitialized \/ via = "server")
            /\ lastOp' = [op |-> "initialize", via |-> via, noop |-> TRUE,
                          threw |-> FALSE, error |-> "none", sentRequest |-> FALSE,
                          initializedBefore |-> TRUE]
            /\ UNCHANGED <<vstore, calls, created>>
       ELSE /\ calls' = [calls EXCEPT ![c] = [pc |-> "awaiting", via |-> via,
                                              counted |-> TRUE]]
            /\ created' = created + 1
            /\ lastOp' = NoOp
            /\ UNCHANGED <<vstore, servicesInitialized>>
    /\ UNCHANGED <<varsIngest, varsRetrieve, varsQueue, varsServer, varsPlan, varsAgent, varsCache, varsPdf,
                   varsEmbed, varsWatch, varsChunk, varsFacade, varsRace, varsHistory>>

(* The database answers the getOrCreateCollection request of caller c.     *)
initializeSettles(c, ok) ==
    /\ calls[c].pc = "awaiting"
    /\ calls' = [calls EXCEPT ![c] = [pc |-> "idle", via |-> "direct", counted |-> FALSE]]
    /\ IF ok
       THEN /\ vstore' = [initialized |-> TRUE, collection |-> TRUE]
            /\ servicesInitialized' = (servicesInitialized \/ calls[c].via = "server")
            /\ UNCHANGED created
       ELSE /\ created' = IF calls[c].counted THEN created - 1 ELSE created
            /\ UNCHANGED <<vstore, servicesInitialized>>
    /\ lastOp' = [op |-> "initialize", via |-> calls[c].via, noop |-> FALSE,
                  threw |-> ~ok,
                  error |-> IF ok THEN "none" ELSE "ConnectionFailure",
                  sentRequest |-> TRUE,
                  initializedBefore |-> vstore.initialized]
    /\ UNCHANGED <<varsIngest, varsRetrieve, varsQueue, varsServer, varsPlan, varsAgent, varsCache, varsPdf,
                   varsEmbed, varsWatch, varsChunk, varsFacade, varsRace, varsHistory>>

GuardedOps == {"addDocuments", "updateDocuments", "deleteDocuments",
               "deleteByFilePath", "query", "getDocumentsByFilePath",
               "getDocumentCount"}

StoreOps == GuardedOps \cup {"listCollections", "deleteCollection"}

(* Whether the operation starts with this.ensureInitialized().             *)
callsEnsureInitialized(op) == op \in GuardedOps

(* Any other VectorStore operation; the request it sends may fail.         *)
storeOperation(op, dbFails) ==
    LET refused == callsEnsureInitialized(op) /\ ~ensureInitialized(vstore)
        threw   == refused \/ dbFails
    IN  /\ lastOp' = [op |-> op, via |-> "direct", noop |-> FALSE,
                      threw |-> threw,
                      error |-> IF refused THEN "NotInitialized"
                                ELSE IF dbFails THEN "DatabaseError" ELSE "none",
                      sentRequest |-> ~refused,
                      initializedBefore |-> vstore.initialized]
        /\ IF op = "deleteCollection" /\ ~threw
           THEN /\ vstore' = [initialized |-> FALSE, collection |-> FALSE]
                /\ created' = 0
                /\ calls' = [c \in Callers |-> [calls[c] EXCEPT !.counted = FALSE]]
           ELSE UNCHANGED <<vstore, created, calls>>
        /\ UNCHANGED <<servicesInitialized, varsIngest, varsRetrieve, varsQueue, varsServer, varsPlan, varsAgent, varsCache, varsPdf,
                   varsEmbed, varsWatch, varsChunk, varsFacade, varsRace, varsHistory>>

InitStore == IdleStore /\ IdleIngest /\ IdleRetrieve /\ IdleQueue /\ IdleServer /\ IdlePlan /\ IdleAgent /\ IdleRest
    /\ IdleCache /\ IdlePdf

NextStore ==
    \/ \E c \in Callers, via \in {"direct", "server"} : initializeBegins(c, via)
    \/ \E c \in Callers, ok \in BOOLEAN : initializeSettles(c, ok)
    \/ \E op \in StoreOps, dbFails \in BOOLEAN : storeOperation(op, dbFails)

SpecStore == InitStore /\ [][NextStore]_vars

(* C5: every VectorStore operation invoked before initialize() has         *)
(* succeeded fails with NotInitialized and sends no request to the         *)
(* database.                                                               *)
C5_NotInitializedGuard ==
    (lastOp.op \in StoreOps /\ ~lastOp.initializedBefore) =>
        /\ lastOp.threw
        /\ lastOp.error = "NotInitialized"
        /\ ~lastOp.sentRequest

(* C6: the get-or-create request is issued once until deleteCollection()   *)
(* resets the state, for any interleaving of initialize() calls.           *)
C6_GetOrCreateIssuedOnce == created <= 1

----------------------------------------------------------------------------
(* MCP server: the tools/call handler.  One request is serviced per step;  *)
(* the interleaving of two requests' initializations is SpecStore's.       *)

RetrievalTools == {"rag_context", "rag_search", "rag_query", "rag_patterns",
                   "rag_dependencies"}

Tools == RetrievalTools \cup {"rag_index", "rag_status", "rag_index_pdf",
                              "rag_remove_pdf"}

(* Tool names a request may carry, one of them not a tool.                 *)
ToolNames == Tools \cup {"rag_unknown"}

(* Arguments: well-formed; absent; or of the wrong shape (keywords not a   *)
(* list, url not a URL).                                                   *)
ToolArgs == {"valid", "missing", "malformed"}

(* Which dependency fails while the request is serviced.  "ingestion" is a *)
(* failure of reading, chunking or fetching one item.                      *)
ServiceFailures == {"none", "vectorStore", "embedding", "retriever", "ingestion"}

(* vectorStore.initialize() run to completion by a single caller.          *)
vectorStoreInitialize(vs, fail) ==
    IF initializeReturnsEarly(vs) THEN [threw |-> FALSE, vs |-> vs]
    ELSE IF fail = "vectorStore" THEN [threw |-> TRUE, vs |-> vs]
    ELSE [threw |-> FALSE, vs |-> [initialized |-> TRUE, collection |-> TRUE]]

(* The server's ensureInitialized().                                       *)
serverEnsureInitialized(vs, si, fail) ==
    IF si THEN [threw |-> FALSE, vs |-> vs, si |-> si]
    ELSE LET i == vectorStoreInitialize(vs, fail)
         IN  [threw |-> i.threw, vs |-> i.vs, si |-> ~i.threw]

(* What a case of the switch does: either it throws, or it returns a       *)
(* response with the given text and error flag.  failed records that       *)
(* the request was not serviced in full.                                   *)
Thrown(vs, si) ==
    [threw |-> TRUE, failed |-> TRUE, text |-> "none", isError |-> FALSE,
     vs |-> vs, si |-> si]

Returned(text, isError, failed, vs, si) ==
    [threw |-> FALSE, failed |-> failed, text |-> text, isError |-> isError,
     vs |-> vs, si |-> si]

(* rag_context, rag_search, rag_query, rag_patterns, rag_dependencies.     *)
retrievalTool(name, args, fail, vs, si) ==
    LET e == serverEnsureInitialized(vs, si, fail)
    IN  IF e.threw THEN Thrown(e.vs, e.si)
        ELSE IF name = "rag_context" /\ args = "malformed" THEN Thrown(e.vs, e.si)
        ELSE IF fail \in {"vectorStore", "embedding", "retriever"}
                \/ ~ensureInitialized(e.vs)
             THEN Thrown(e.vs, e.si)
        ELSE Returned("payload", FALSE, FALSE, e.vs, e.si)

ragStatus(fail, vs, si) ==
    LET e == serverEnsureInitialized(vs, si, fail)
    IN  IF e.threw \/ fail = "vectorStore" \/ ~ensureInitialized(e.vs)
        THEN Thrown(e.vs, e.si)
        ELSE Returned("payload", FALSE, FALSE, e.vs, e.si)

(* rag_index: ingestDirectory rejects when its own initialize() fails; a   *)
(* failure while processing a file ends in stats.errors.                   *)
ragIndex(fail, vs, si) ==
    LET i == vectorStoreInitialize(vs, fail)
    IN  IF i.threw THEN Thrown(i.vs, si)
        ELSE IF fail \in {"vectorStore", "embedding", "ingestion"}
             THEN Returned("stats_with_errors", FALSE, TRUE, i.vs, si)
        ELSE Returned("payload", FALSE, FALSE, i.vs, si)

(* rag_index_pdf: URL checks, then ingestPDFFromURL, which initializes     *)
(* outside its try block and turns later failures into result.error.       *)
ragIndexPdf(args, fail, vs, si) ==
    IF args \in {"missing", "malformed"} THEN Returned("error", TRUE, TRUE, vs, si)
    ELSE LET i == vectorStoreInitialize(vs, fail)
         IN  IF i.threw THEN Thrown(i.vs, si)
             ELSE IF fail \in {"vectorStore", "embedding", "ingestion"}
                  THEN Returned("result_with_error", TRUE, TRUE, i.vs, si)
             ELSE Returned("payload", FALSE, FALSE, i.vs, si)

ragRemovePdf(args, fail, vs, si) ==
    IF args = "missing" THEN Returned("error", TRUE, TRUE, vs, si)
    ELSE LET i == vectorStoreInitialize(vs, fail)
         IN  IF i.threw \/ fail = "vectorStore" THEN Thrown(i.vs, si)
             ELSE Returned("payload", FALSE, FALSE, i.vs, si)

(* switch (name) { ... default: throw new Error('Unknown tool') }          *)
toolSwitch(name, args, fail, vs, si) ==
    IF name \in RetrievalTools THEN retrievalTool(name, args, fail, vs, si)
    ELSE IF name = "rag_status" THEN ragStatus(fail, vs, si)
    ELSE IF name = "rag_index" THEN ragIndex(fail, vs, si)
    ELSE IF name = "rag_index_pdf" THEN ragIndexPdf(args, fail, vs, si)
    ELSE IF name = "rag_remove_pdf" THEN ragRemovePdf(args, fail, vs, si)
    ELSE Thrown(vs, si)

(* A handler whose switch is not wrapped in try/catch.                     *)
catchAtBoundary_absent(b) ==
    [text |-> b.text, isError |-> b.isError, propagated |-> b.threw]

(* try { switch } catch (error) { return {error: message}, isError: true } *)
catchAtBoundary(b) ==
    IF b.threw
    THEN [text |-> "error", isError |-> TRUE, propagated |-> FALSE]
    ELSE [text |-> b.text, isError |-> b.isError, propagated |-> FALSE]

(* The CallToolRequestSchema handler.                                      *)
callTool(name, args, fail) ==
    LET b == toolSwitch(name, args, fail, vstore, servicesInitialized)
        r == catchAtBoundary(b)
    IN  /\ lastResponse' = [tool |-> name, args |-> args, fail |-> fail,
                            failed |-> b.failed, caught |-> b.threw,
                            text |-> r.text, isError |-> r.isError,
                            propagated |-> r.propagated]
        /\ vstore' = b.vs
        /\ servicesInitialized' = b.si
        /\ UNCHANGED <<calls, created, lastOp, varsIngest, varsRetrieve, varsQueue, varsPlan, varsAgent, varsCache, varsPdf,
                   varsEmbed, varsWatch, varsChunk, varsFacade, varsRace, varsHistory>>

InitServer == IdleServer /\ IdleStore /\ IdleIngest /\ IdleRetrieve /\ IdleQueue /\ IdlePlan /\ IdleAgent /\ IdleRest
    /\ IdleCache /\ IdlePdf

NextServer ==
    \E name \in ToolNames, args \in ToolArgs, fail \in ServiceFailures :
        callTool(name, args, fail)

SpecServer == InitServer /\ [][NextServer]_vars

(* C4: no exception propagates to the transport, and whenever servicing    *)
(* the request failed the response text is the JSON {error: message} with  *)
(* the error flag set.                                                     *)
C4_EveryFailureIsErrorResponse ==
    lastResponse.tool # "none" =>
        /\ ~lastResponse.propagated
        /\ lastResponse.failed =>
              (lastResponse.text = "error" /\ lastResponse.isError)

(* C4 (amended): no exception propagates; an exception that reaches the    *)
(* handler's catch, and a rejected url argument, give {error: message}     *)
(* with the error flag; a failure contained inside ingestDirectory gives   *)
(* the unflagged stats payload of rag_index, one contained inside          *)
(* ingestPDFFromURL the flagged result payload of rag_index_pdf; a request *)
(* serviced in full gives an unflagged payload.                            *)
C4_BoundaryCatchesExceptions ==
    lastResponse.tool # "none" =>
        /\ ~lastResponse.propagated
        /\ lastResponse.caught =>
              (lastResponse.text = "error" /\ lastResponse.isError)
        /\ (lastResponse.failed /\ ~lastResponse.caught) =>
              \/ /\ lastResponse.tool = "rag_index"
                 /\ lastResponse.text = "stats_with_errors"
                 /\ ~lastResponse.isError
              \/ /\ lastResponse.tool = "rag_index_pdf"
                 /\ lastResponse.text \in {"error", "result_with_error"}
                 /\ lastResponse.isError
              \/ /\ lastResponse.tool = "rag_remove_pdf"
                 /\ lastResponse.args = "missing"
                 /\ lastResponse.text = "error"
                 /\ lastResponse.isError
        /\ ~lastResponse.failed =>
              (lastResponse.text = "payload" /\ ~lastResponse.isError)

(* C4 witness: the retriever failed while rag_search was serviced and the  *)
(* exception was caught at the boundary.                                   *)
C4_Witness ==
    /\ lastResponse.tool = "rag_search"
    /\ lastResponse.fail = "retriever"
    /\ lastResponse.caught
    /\ lastResponse.text = "error"
    /\ lastResponse.isError

----------------------------------------------------------------------------
(* Orchestrator: createPlan, executePlan, generateFinalResponse.           *)

(* Bounds: steps in a planning response; options.maxIterations.            *)
MaxSteps == 3
MaxIterations == 3

(* step.agent values; "other" is any name that is not one of the three.    *)
Agents == {"retriever", "analyzer", "synthesizer", "other"}

RECURSIVE SeqsUpTo(_, _)
SeqsUpTo(S, n) ==
    IF n = 0 THEN {<<>>}
    ELSE LET shorter == SeqsUpTo(S, n - 1)
         IN  shorter \cup {Append(q, a) : q \in shorter, a \in S}

(* The planning LLM's response text, by what createPlan looks at: whether  *)
(* /\{[\s\S]*\}/ matches, whether the match parses as JSON, whether the    *)
(* parsed object has steps, and the steps' agents.                         *)
PlanningResponses ==
    {[braced |-> FALSE, parses |-> FALSE, hasSteps |-> FALSE, steps |-> <<>>],
     [braced |-> TRUE,  parses |-> FALSE, hasSteps |-> FALSE, steps |-> <<>>],
     [braced |-> TRUE,  parses |-> TRUE,  hasSteps |-> FALSE, steps |-> <<>>]}
    \cup {[braced |-> TRUE, parses |-> TRUE, hasSteps |-> TRUE, steps |-> st] :
            st \in SeqsUpTo(Agents, MaxSteps)}

(* type: step.agent === 'retriever' ? 'query'                              *)
(*     : step.agent === 'analyzer' ? 'analyze' : 'synthesize'              *)
taskType(agent) ==
    IF agent = "retriever" THEN "query"
    ELSE IF agent = "analyzer" THEN "analyze" ELSE "synthesize"

Task(type) == [type |-> type, status |-> "pending", started |-> FALSE, error |-> "none"]

toTasks(steps) == [k \in 1..Len(steps) |-> Task(taskType(steps[k]))]

(* The steps of the two literal planData objects of createPlan.            *)
noMatchSteps == <<"retriever", "analyzer", "synthesizer">>

parseFailureSteps == <<"retriever", "synthesizer">>

(* createPlan: the plan returned, or threw when planData.steps.map throws. *)
createPlan(response) ==
    LET usesLiteral == ~response.braced \/ ~response.parses
        steps == IF ~response.braced THEN noMatchSteps
                 ELSE IF ~response.parses THEN parseFailureSteps
                 ELSE response.steps
    IN  IF ~usesLiteral /\ ~response.hasSteps
        THEN [threw |-> TRUE, plan |-> NoPlan]
        ELSE [threw |-> FALSE,
              plan  |-> [tasks |-> toTasks(steps), strategy |-> "sequential",
                         estimatedSteps |-> Len(steps)]]

(* process(): a new call creates the plan; executePlan's locals start at   *)
(* their initial values.                                                   *)
process(response) ==
    /\ orch.pc \in {"idle", "responded", "rejected"}
    /\ LET p == createPlan(response)
           o == [NewOrchestrator(orch.maxIterations) EXCEPT !.planning = response]
       IN  /\ plan' = p.plan
           /\ orch' = IF p.threw
                      THEN [o EXCEPT !.pc = "rejected", !.threw = "createPlan"]
                      ELSE [o EXCEPT !.pc = "planned"]
    /\ UNCHANGED <<varsIngest, varsRetrieve, varsQueue, varsStore, varsServer, varsAgent, varsCache, varsPdf,
                   varsEmbed, varsWatch, varsChunk, varsFacade, varsRace, varsHistory>>

(* executePlan, head of the for loop: leave when the tasks are exhausted   *)
(* or iterations >= maxIterations, else mark the task running.             *)
(* A loop guard that lets one more task through than maxIterations.        *)
maxIterationsReached_late(iterations, maxIterations) == iterations > maxIterations

(* if (iterations >= this.maxIterations) break                             *)
maxIterationsReached(iterations, maxIterations) == iterations >= maxIterations

executePlanLoopHead ==
    /\ orch.pc \in {"planned", "executing"}
    /\ IF orch.i > Len(plan.tasks) \/ maxIterationsReached(orch.iterations, orch.maxIterations)
       THEN /\ orch' = [orch EXCEPT !.pc = "executed"]
            /\ UNCHANGED plan
       ELSE /\ plan' = [plan EXCEPT !.tasks[orch.i].status = "running",
                                    !.tasks[orch.i].started = TRUE]
            /\ orch' = [orch EXCEPT !.pc = "inTask"]
    /\ UNCHANGED <<varsIngest, varsRetrieve, varsQueue, varsStore, varsServer, varsAgent, varsCache, varsPdf,
                   varsEmbed, varsWatch, varsChunk, varsFacade, varsRace, varsHistory>>

RetrieverOutcomes == {"throws", "zero", "some"}

AnalyzerOutcomes == {"throws", "returns"}

(* Documents in a non-empty retrieval result.                              *)
SomeDocuments == 2

(* A switch whose analyze case calls the analyzer whatever was retrieved.  *)
analyzerIsCalled_always(docs) == TRUE

(* case 'analyze': if (retrievedDocuments.length > 0)                      *)
analyzerIsCalled(docs) == docs > 0

(* An iteration whose try has no catch: the agent's exception leaves the   *)
(* task running and rejects executePlan.                                   *)
catchTaskError_absent(threw) ==
    IF threw
    THEN [status |-> "running", error |-> "none", pc |-> "rejected", rethrown |-> TRUE]
    ELSE [status |-> "completed", error |-> "none", pc |-> "executing", rethrown |-> FALSE]

(* try { ...; task.status = 'completed' }                                  *)
(* catch (error) { task.status = 'failed'; task.error = message }          *)
catchTaskError(threw) ==
    IF threw
    THEN [status |-> "failed", error |-> "message", pc |-> "executing", rethrown |-> FALSE]
    ELSE [status |-> "completed", error |-> "none", pc |-> "executing", rethrown |-> FALSE]

(* A synthesize case that calls the synthesizer for the task.              *)
synthesizeTaskCalls_perTask(type) == IF type = "synthesize" THEN 1 ELSE 0

(* case 'synthesize': task.result = { deferred: true } - no agent call     *)
synthesizeTaskCalls(type) == 0

(* executePlan, the try/switch of one iteration and iterations++.          *)
executePlanTask(retriever, analyzer) ==
    /\ orch.pc = "inTask"
    /\ LET task   == plan.tasks[orch.i]
           calls_ == task.type = "analyze" /\ analyzerIsCalled(orch.retrievedDocuments)
           threw  == \/ task.type = "query" /\ retriever = "throws"
                     \/ calls_ /\ analyzer = "throws"
           c      == catchTaskError(threw)
       IN  /\ plan' = [plan EXCEPT
                         !.tasks[orch.i].status = c.status,
                         !.tasks[orch.i].error  = c.error]
           /\ orch' = [orch EXCEPT
                         !.pc = c.pc,
                         !.threw = IF c.rethrown THEN "executePlan" ELSE @,
                         !.agentThrewAt = IF threw THEN @ \cup {orch.i} ELSE @,
                         !.synthesizerCalls = @ + synthesizeTaskCalls(task.type),
                         !.i = @ + 1,
                         !.iterations = @ + 1,
                         !.retrievedDocuments =
                             IF task.type = "query" /\ ~threw
                             THEN (IF retriever = "zero" THEN 0 ELSE SomeDocuments)
                             ELSE @,
                         !.retrieverReturned =
                             IF task.type = "query" THEN @ \cup {retriever} ELSE @,
                         !.analysis = IF calls_ /\ ~threw THEN TRUE ELSE @,
                         !.analyzerCalls = IF calls_ THEN @ + 1 ELSE @]
    /\ UNCHANGED <<varsIngest, varsRetrieve, varsQueue, varsStore, varsServer, varsAgent, varsCache, varsPdf,
                   varsEmbed, varsWatch, varsChunk, varsFacade, varsRace, varsHistory>>

(* generateFinalResponse: the synthesizer is called; its failure rejects   *)
(* process().                                                              *)
generateFinalResponse(synthesizerThrows) ==
    /\ orch.pc = "executed"
    /\ orch' = [orch EXCEPT
                  !.synthesizerCalls = @ + 1,
                  !.pc = IF synthesizerThrows THEN "rejected" ELSE "responded",
                  !.threw = IF synthesizerThrows THEN "generateFinalResponse" ELSE @]
    /\ UNCHANGED <<plan, varsIngest, varsRetrieve, varsQueue, varsStore, varsServer, varsAgent, varsCache, varsPdf,
                   varsEmbed, varsWatch, varsChunk, varsFacade, varsRace, varsHistory>>

InitPlan ==
    /\ plan = NoPlan
    /\ \E m \in 0..MaxIterations : orch = NewOrchestrator(m)
    /\ IdleIngest /\ IdleRetrieve /\ IdleQueue /\ IdleStore /\ IdleServer
    /\ IdleAgent /\ IdleCache /\ IdlePdf
    /\ IdleRest

NextPlan ==
    \/ \E response \in PlanningResponses : process(response)
    \/ executePlanLoopHead
    \/ \E r \in RetrieverOutcomes, a \in AnalyzerOutcomes : executePlanTask(r, a)
    \/ \E t \in BOOLEAN : generateFinalResponse(t)

SpecPlan == InitPlan /\ [][NextPlan]_vars

TaskTypes(tasks) == [k \in 1..Len(tasks) |-> tasks[k].type]

NoUsablePlan(response) ==
    \/ ~response.braced
    \/ ~response.parses
    \/ ~response.hasSteps
    \/ response.steps = <<>>

(* C9: when the planning response yields no usable plan (no JSON object,   *)
(* unparseable braces, steps missing or empty) createPlan does not throw   *)
(* and returns the plan query, analyze, synthesize, every task pending.    *)
C9_FallbackPlanIsThreeTasks ==
    (orch.pc \in {"planned", "rejected"} /\ orch.synthesizerCalls = 0
       /\ NoUsablePlan(orch.planning)) =>
        /\ orch.threw = "none"
        /\ TaskTypes(plan.tasks) = <<"query", "analyze", "synthesize">>
        /\ \A k \in 1..Len(plan.tasks) : plan.tasks[k].status = "pending"

ZeroDocumentRun ==
    /\ orch.pc = "executed"
    /\ TaskTypes(plan.tasks) = <<"query", "analyze", "synthesize">>
    /\ orch.retrieverReturned = {"zero"}

(* C10: with the plan query, analyze, synthesize and a retriever that      *)
(* returned zero documents, executePlan returns without throwing, the      *)
(* analyzer was not invoked and the analyze task is completed.             *)
C10_ZeroDocumentsAnalyzeCompleted ==
    ZeroDocumentRun =>
        /\ orch.threw = "none"
        /\ orch.analyzerCalls = 0
        /\ plan.tasks[2].status = "completed"

(* C10 (amended): the same, for an orchestrator whose maxIterations is at  *)
(* least 2, so that the loop reaches the analyze task.                     *)
C10_ZeroDocumentsAnalyzeCompletedWithinLimit ==
    (ZeroDocumentRun /\ orch.maxIterations >= 2) =>
        /\ orch.threw = "none"
        /\ orch.analyzerCalls = 0
        /\ ~orch.analysis
        /\ plan.tasks[2].status = "completed"
        /\ plan.tasks[2].error = "none"

(* C10 witness: executePlan has returned from the fallback plan after a    *)
(* retrieval of zero documents, the analyze task having been run.          *)
C10_Witness ==
    /\ ZeroDocumentRun
    /\ ~orch.planning.braced
    /\ orch.maxIterations >= 2
    /\ plan.tasks[2].started
    /\ plan.tasks[2].status = "completed"

Min(a, b) == IF a <= b THEN a ELSE b

(* C11: a task whose agent call throws is marked failed with the error     *)
(* message, the later tasks within maxIterations are still executed, and   *)
(* executePlan does not throw.                                             *)
C11_FailedTaskDoesNotAbort ==
    /\ orch.threw # "executePlan"
    /\ orch.pc = "executed" =>
          \A k \in 1..Len(plan.tasks) :
              /\ k \in orch.agentThrewAt =>
                    (plan.tasks[k].status = "failed" /\ plan.tasks[k].error = "message")
              /\ k <= Min(Len(plan.tasks), orch.maxIterations) =>
                    (plan.tasks[k].started
                       /\ plan.tasks[k].status \in {"completed", "failed"})

(* C11 witness: executePlan returned from a plan whose first task failed   *)
(* and whose later tasks were run to completion.                           *)
C11_Witness ==
    /\ orch.pc = "executed"
    /\ Len(plan.tasks) = 3
    /\ orch.agentThrewAt = {1}
    /\ plan.tasks[1].status = "failed"
    /\ plan.tasks[2].status = "completed"
    /\ plan.tasks[3].status = "completed"

(* C12: for every plan executed, the synthesizer is invoked exactly once,  *)
(* after the task loop has ended.                                          *)
C12_SynthesizerInvokedOnce ==
    /\ orch.pc \in {"planned", "executing", "inTask", "executed"} =>
          orch.synthesizerCalls = 0
    /\ (orch.pc = "responded" \/ orch.threw = "generateFinalResponse") =>
          orch.synthesizerCalls = 1

(* C12 witness: a response was produced for a plan with two synthesize     *)
(* tasks and a failed task.                                                *)
C12_Witness ==
    /\ orch.pc = "responded"
    /\ Len(plan.tasks) = 3
    /\ plan.tasks[1].type = "synthesize"
    /\ plan.tasks[2].type = "query"
    /\ plan.tasks[2].status = "failed"
    /\ plan.tasks[3].type = "synthesize"
    /\ orch.synthesizerCalls = 1

----------------------------------------------------------------------------
(* BaseAgent.sendMessageWithTools: the tool-use loop.                      *)

(* Bounds: tool_use blocks in one response; the values at which the two    *)
(* counters stop counting (they record "this many or more").               *)
MaxToolUses == 2
MaxCompletions == 4
MaxToolResults == 3

StopReasons == {"end_turn", "tool_use", "max_tokens"}

UpTo(n, cap) == IF n < cap THEN n + 1 ELSE cap

(* A call starts: the user message is pushed and the first completion is   *)
(* requested.                                                              *)
sendMessageWithTools ==
    /\ toolLoop.pc \in {"idle", "returned", "rejected"}
    /\ toolLoop' = [pc |-> "awaiting", completions |-> 1, toolResults |-> 0,
                    lastRole |-> "user", pendingTools |-> 0, stopReason |-> "none"]
    /\ UNCHANGED <<varsIngest, varsRetrieve, varsQueue, varsStore, varsServer, varsPlan, varsCache, varsPdf,
                   varsEmbed, varsWatch, varsChunk, varsFacade, varsRace, varsHistory>>

(* while (continueLoop): whether another completion is requested.          *)
continueLoop(nToolUses, stopReason) == nToolUses > 0 /\ stopReason = "tool_use"

(* The end of one turn of the loop: request the next completion or return. *)
endOfTurn(tl, nToolUses, stopReason) ==
    IF continueLoop(nToolUses, stopReason)
    THEN [tl EXCEPT !.pc = "awaiting",
                    !.completions = UpTo(@, MaxCompletions),
                    !.pendingTools = 0]
    ELSE [tl EXCEPT !.pc = "returned", !.pendingTools = 0]

(* messages.create resolves with text or not, nToolUses tool_use blocks    *)
(* and a stop reason; the assistant text is stored.                        *)
completionResponds(hasText, nToolUses, stopReason) ==
    /\ toolLoop.pc = "awaiting"
    /\ LET stored == [toolLoop EXCEPT
                        !.lastRole = IF hasText THEN "assistant" ELSE @,
                        !.stopReason = stopReason]
       IN  toolLoop' = IF nToolUses > 0
                       THEN [stored EXCEPT !.pc = "handling", !.pendingTools = nToolUses]
                       ELSE endOfTurn(stored, 0, stopReason)
    /\ UNCHANGED <<varsIngest, varsRetrieve, varsQueue, varsStore, varsServer, varsPlan, varsCache, varsPdf,
                   varsEmbed, varsWatch, varsChunk, varsFacade, varsRace, varsHistory>>

(* messages.create rejects: sendMessageWithTools rejects.                  *)
completionFails ==
    /\ toolLoop.pc = "awaiting"
    /\ toolLoop' = [toolLoop EXCEPT !.pc = "rejected"]
    /\ UNCHANGED <<varsIngest, varsRetrieve, varsQueue, varsStore, varsServer, varsPlan, varsCache, varsPdf,
                   varsEmbed, varsWatch, varsChunk, varsFacade, varsRace, varsHistory>>

(* One tool use is handled: its result or its error is pushed as a user    *)
(* message; after the last one the turn ends.                              *)
toolHandled(ok) ==
    /\ toolLoop.pc = "handling"
    /\ LET pushed == [toolLoop EXCEPT
                        !.lastRole = "user",
                        !.toolResults = IF ok THEN UpTo(@, MaxToolResults) ELSE @,
                        !.pendingTools = @ - 1]
       IN  toolLoop' = IF pushed.pendingTools > 0 THEN pushed
                       ELSE endOfTurn(pushed, 1, pushed.stopReason)
    /\ UNCHANGED <<varsIngest, varsRetrieve, varsQueue, varsStore, varsServer, varsPlan, varsCache, varsPdf,
                   varsEmbed, varsWatch, varsChunk, varsFacade, varsRace, varsHistory>>

InitAgent ==
    /\ IdleAgent
    /\ IdleIngest /\ IdleRetrieve /\ IdleQueue /\ IdleStore /\ IdleServer /\ IdlePlan
    /\ IdleCache /\ IdlePdf
    /\ IdleRest

NextAgent ==
    \/ sendMessageWithTools
    \/ \E t \in BOOLEAN, n \in 0..MaxToolUses, r \in StopReasons :
          completionResponds(t, n, r)
    \/ completionFails
    \/ \E ok \in BOOLEAN : toolHandled(ok)

(* The completion API and the tool handler always answer eventually.       *)
SpecAgent ==
    /\ InitAgent
    /\ [][NextAgent]_vars
    /\ WF_vars(\E t \in BOOLEAN, n \in 0..MaxToolUses, r \in StopReasons :
                  completionResponds(t, n, r))
    /\ WF_vars(\E ok \in BOOLEAN : toolHandled(ok))

(* C13: an invocation of sendMessageWithTools terminates, even if the      *)
(* model requests a tool on every turn.                                    *)
C13_ToolLoopTerminates ==
    (toolLoop.pc \in {"awaiting", "handling"}) ~> (toolLoop.pc \in {"returned", "rejected"})

----------------------------------------------------------------------------
(* Retrieval with the default configuration.                               *)

(* 100 * retrieval.minScore                                                *)
defaultMinScore == 70

(* The documents of the collection that contain the query term.            *)
ContainingTerm(coll, q) == {d \in coll : calculateKeywordScore(d, q) > 0}

(* C14: with hybrid search and minScore 0.7, when exactly one indexed      *)
(* document contains the query term, a retrieve computed from the          *)
(* collection returns a list with that document ranked first.              *)
C14_VerbatimTermRankedFirst ==
    (/\ lastRetrieve.op = "retrieve"
     /\ rconfig.hybrid
     /\ ~lastRetrieve.hit
     /\ lastRetrieve.query.minScore = defaultMinScore
     /\ lastRetrieve.query.filters = NoFilter
     /\ Cardinality(collection) >= 2
     /\ Cardinality(ContainingTerm(collection, lastRetrieve.query.query)) = 1) =>
        /\ lastRetrieve.result # <<>>
        /\ lastRetrieve.result[1].id \in ContainingTerm(collection, lastRetrieve.query.query)

----------------------------------------------------------------------------
(* reciprocalRankFusion and rerank as functions of their arguments.        *)

(* Bound: the length of a result list.                                     *)
MaxResults == 3

(* Result lists as the vector store returns them: no document twice.       *)
ResultLists ==
    {[i \in 1..Len(q) |-> [id |-> q[i], score |-> Frac(similarity(q[i], "q1"), 100)]] :
        q \in {x \in SeqsUpTo(Docs, MaxResults) :
                  \A i, j \in 1..Len(x) : i # j => x[i] # x[j]}}

Ids(list) == [i \in 1..Len(list) |-> list[i].id]

callReciprocalRankFusion(semanticResults, keywordResults, topK) ==
    /\ lastRetrieve' = [op |-> "reciprocalRankFusion",
                        semantic |-> Ids(semanticResults),
                        keyword |-> Ids(keywordResults),
                        topK |-> topK,
                        result |-> reciprocalRankFusion(semanticResults, keywordResults, topK)]
    /\ UNCHANGED <<collection, rcache, rconfig, varsIngest, varsQueue, varsStore,
                   varsServer, varsPlan, varsAgent, varsCache, varsPdf,
                   varsEmbed, varsWatch, varsChunk, varsFacade, varsRace, varsHistory>>

callRerank(results, topN, anthropic, response) ==
    /\ lastRetrieve' = [op |-> "rerank", results |-> results, topN |-> topN,
                        anthropic |-> anthropic, response |-> response,
                        result |-> rerank(results, topN, anthropic, response)]
    /\ UNCHANGED <<collection, rcache, rconfig, varsIngest, varsQueue, varsStore,
                   varsServer, varsPlan, varsAgent, varsCache, varsPdf,
                   varsEmbed, varsWatch, varsChunk, varsFacade, varsRace, varsHistory>>

InitRanking ==
    /\ IdleRetrieve /\ IdleIngest /\ IdleQueue /\ IdleStore /\ IdleServer
    /\ IdlePlan /\ IdleAgent /\ IdleCache /\ IdlePdf
    /\ IdleRest

NextRanking ==
    \/ \E sem \in ResultLists, key \in ResultLists, topK \in 1..MaxResults :
          callReciprocalRankFusion(sem, key, topK)
    \/ \E results \in ResultLists, topN \in 1..MaxResults, anthropic \in BOOLEAN,
          response \in RerankResponses :
          callRerank(results, topN, anthropic, response)

SpecRanking == InitRanking /\ [][NextRanking]_vars

(* The sum of weight / (60 + rank + 1) over the lists id appears in.       *)
ExpectedScore(id, semantic, keyword) ==
    LET inList(l, w) ==
            IF \E i \in 1..Len(l) : l[i] = id
            THEN Frac(w.n, w.d * (60 + (CHOOSE i \in 1..Len(l) : l[i] = id)))
            ELSE Frac(0, 1)
    IN  FracAdd(inList(semantic, Frac(7, 10)), inList(keyword, Frac(3, 10)))

(* C15: fusing the semantic list D1, D2 with the keyword list D2, D3       *)
(* returns the order D2, D1, D3, and every fused score is the sum of       *)
(* weight / (60 + rank + 1) over the lists the document appears in.        *)
C15_FusedOrder ==
    lastRetrieve.op = "reciprocalRankFusion" =>
        /\ \A i \in 1..Len(lastRetrieve.result) :
              lastRetrieve.result[i].score =
                  ExpectedScore(lastRetrieve.result[i].id,
                                lastRetrieve.semantic, lastRetrieve.keyword)
        /\ (/\ lastRetrieve.semantic = <<"D1", "D2">>
            /\ lastRetrieve.keyword = <<"D2", "D3">>
            /\ lastRetrieve.topK = 3) =>
              Ids(lastRetrieve.result) = <<"D2", "D1", "D3">>

(* C15 witness: the two lists of the claim have been fused.                *)
C15_Witness ==
    /\ lastRetrieve.op = "reciprocalRankFusion"
    /\ lastRetrieve.semantic = <<"D1", "D2">>
    /\ lastRetrieve.keyword = <<"D2", "D3">>
    /\ lastRetrieve.topK = 3
    /\ Len(lastRetrieve.result) = 3

(* C16: without a client, or when the re-ranking call fails or its answer  *)
(* cannot be read as a bracketed integer list, rerank returns the first    *)
(* topN results unchanged.                                                 *)
C16_RerankFallsBack ==
    (/\ lastRetrieve.op = "rerank"
     /\ \/ ~lastRetrieve.anthropic
        \/ lastRetrieve.response.kind \in {"throw", "nontext", "nomatch", "badjson"}) =>
        lastRetrieve.result = Take(lastRetrieve.results, lastRetrieve.topN)

(* C16 witness: a list of three results, a client, an unreadable answer,   *)
(* and the first two results returned.                                     *)
C16_Witness ==
    /\ lastRetrieve.op = "rerank"
    /\ lastRetrieve.anthropic
    /\ lastRetrieve.response.kind = "badjson"
    /\ Len(lastRetrieve.results) = 3
    /\ lastRetrieve.topN = 2
    /\ Len(lastRetrieve.result) = 2

----------------------------------------------------------------------------
(* PersistentEmbeddingCache: set, the save timer, saveToDisk and flush.    *)
(* Time advances in ticks of 10,000 ms.                                    *)

(* The setTimeout delay of scheduleSave, 30,000 ms, in ticks.              *)
saveDelay == 3

(* scheduleSave: if (this.saveTimer) return; else start the timer.         *)
scheduleSave(timer) == IF timer # -1 THEN timer ELSE saveDelay

(* set(key, value)                                                         *)
persistentSet(key) ==
    /\ pcache.enabled
    /\ pcache' = [pcache EXCEPT !.keys = @ \cup {key}, !.dirty = TRUE,
                                !.saveTimer = scheduleSave(@)]
    /\ cacheLog' = [cacheLog EXCEPT !.sinceSet = 0]
    /\ UNCHANGED <<cacheFile, saves, varsIngest, varsRetrieve, varsQueue, varsStore,
                   varsServer, varsPlan, varsAgent, varsPdf,
                   varsEmbed, varsWatch, varsChunk, varsFacade, varsRace, varsHistory>>

(* 10,000 ms pass; a timer that is due fires before more time passes.      *)
tick ==
    /\ pcache.saveTimer > 0 \/ (pcache.saveTimer = -1 /\ cacheLog.sinceSet < saveDelay)
    /\ pcache' = [pcache EXCEPT !.saveTimer = IF @ > 0 THEN @ - 1 ELSE @]
    /\ cacheLog' = [cacheLog EXCEPT !.sinceSet = UpTo(@, saveDelay)]
    /\ UNCHANGED <<cacheFile, saves, varsIngest, varsRetrieve, varsQueue, varsStore,
                   varsServer, varsPlan, varsAgent, varsPdf,
                   varsEmbed, varsWatch, varsChunk, varsFacade, varsRace, varsHistory>>

(* saveToDisk up to its first await: nothing to do unless enabled and      *)
(* dirty.                                                                  *)
saveToDiskBegins(pc) ==
    IF ~pc.enabled \/ ~pc.dirty THEN NoSave ELSE [pc |-> "mkdir", snapshot |-> {}]

(* The timer callback: saveTimer = null; await saveToDisk().               *)
timerFires ==
    /\ pcache.saveTimer = 0
    /\ saves["timer"].pc = "idle"
    /\ pcache' = [pcache EXCEPT !.saveTimer = -1]
    /\ saves' = [saves EXCEPT !["timer"] = saveToDiskBegins(pcache)]
    /\ cacheLog' = [cacheLog EXCEPT !.last =
                      [kind |-> "timerSave",
                       performed |-> pcache.enabled /\ pcache.dirty,
                       sinceSet |-> cacheLog.sinceSet]]
    /\ UNCHANGED <<cacheFile, varsIngest, varsRetrieve, varsQueue, varsStore,
                   varsServer, varsPlan, varsAgent, varsPdf,
                   varsEmbed, varsWatch, varsChunk, varsFacade, varsRace, varsHistory>>

(* What flush() leaves behind when it returns.                             *)
flushReturned(pc, file, wasDirty) ==
    [kind |-> "flushReturned", wasDirty |-> wasDirty,
     timerPending |-> pc.saveTimer # -1,
     fileHasAll |-> pc.keys \subseteq file]

(* flush(): clear the timer, then saveToDisk.                              *)
flush ==
    /\ saves["flush"].pc = "idle"
    /\ pcache' = [pcache EXCEPT !.saveTimer = -1]
    /\ saves' = [saves EXCEPT !["flush"] = saveToDiskBegins(pcache)]
    /\ cacheLog' = [cacheLog EXCEPT !.last =
                      IF saveToDiskBegins(pcache).pc = "idle"
                      THEN flushReturned(pcache', cacheFile, pcache.dirty)
                      ELSE NoCacheEvent]
    /\ UNCHANGED <<cacheFile, varsIngest, varsRetrieve, varsQueue, varsStore,
                   varsServer, varsPlan, varsAgent, varsPdf,
                   varsEmbed, varsWatch, varsChunk, varsFacade, varsRace, varsHistory>>

(* saveToDisk after await mkdir: the entries are collected and the write   *)
(* is started; a failure is caught and logged.                             *)
saveCollects(w, ok) ==
    /\ saves[w].pc = "mkdir"
    /\ saves' = [saves EXCEPT ![w] = IF ok THEN [pc |-> "writing", snapshot |-> pcache.keys]
                                     ELSE NoSave]
    /\ cacheLog' = [cacheLog EXCEPT !.last =
                      IF ~ok /\ w = "flush"
                      THEN flushReturned(pcache, cacheFile, TRUE)
                      ELSE @]
    /\ UNCHANGED <<pcache, cacheFile, varsIngest, varsRetrieve, varsQueue, varsStore,
                   varsServer, varsPlan, varsAgent, varsPdf,
                   varsEmbed, varsWatch, varsChunk, varsFacade, varsRace, varsHistory>>

(* saveToDisk after await writeFile: this.dirty = false; a failure is      *)
(* caught and logged.                                                      *)
saveWrites(w, ok) ==
    /\ saves[w].pc = "writing"
    /\ saves' = [saves EXCEPT ![w] = NoSave]
    /\ cacheFile' = IF ok THEN saves[w].snapshot ELSE cacheFile
    /\ pcache' = [pcache EXCEPT !.dirty = IF ok THEN FALSE ELSE @]
    /\ cacheLog' = [cacheLog EXCEPT !.last =
                      IF w = "flush"
                      THEN flushReturned(pcache, cacheFile', TRUE)
                      ELSE @]
    /\ UNCHANGED <<varsIngest, varsRetrieve, varsQueue, varsStore,
                   varsServer, varsPlan, varsAgent, varsPdf,
                   varsEmbed, varsWatch, varsChunk, varsFacade, varsRace, varsHistory>>

InitCache ==
    /\ IdleCache
    /\ IdleIngest /\ IdleRetrieve /\ IdleQueue /\ IdleStore /\ IdleServer
    /\ IdlePlan /\ IdleAgent /\ IdlePdf
    /\ IdleRest

NextCache ==
    \/ \E key \in CacheKeys : persistentSet(key)
    \/ tick
    \/ timerFires
    \/ flush
    \/ \E w \in {"timer", "flush"}, ok \in BOOLEAN : saveCollects(w, ok)
    \/ \E w \in {"timer", "flush"}, ok \in BOOLEAN : saveWrites(w, ok)

SpecCache == InitCache /\ [][NextCache]_vars

(* C17: a timer-driven save is never performed less than 30,000 ms after   *)
(* the most recent set.                                                    *)
C17_SaveAfterQuietPeriod ==
    (cacheLog.last.kind = "timerSave" /\ cacheLog.last.performed) =>
        cacheLog.last.sinceSet >= saveDelay

(* C18: when flush() returns no save timer is pending and, if the cache    *)
(* was dirty, the file holds every entry the cache holds.                  *)
C18_FlushWritesEverything ==
    cacheLog.last.kind = "flushReturned" =>
        /\ ~cacheLog.last.timerPending
        /\ cacheLog.last.wasDirty => cacheLog.last.fileHasAll

----------------------------------------------------------------------------
(* DocumentIngestionService.ingestPDFFromURL and removePDF.                *)

(* Where a call fails: bringing up the store, constructing the embedding   *)
(* provider, inside fetchAndParse (network, size limit, timeout, parse),   *)
(* or in a later store or embedding call.                                  *)
PdfFailPoints == {"none", "initialize", "provider", "fetch", "sizeLimit", "timeout",
                  "parse", "getDocuments", "delete", "embed", "add"}

PdfHashes == {"h1", "h2"}

(* ingestPDFFromURL(url, {forceReindex}) for a PDF whose text hashes to    *)
(* hash and chunks into nChunks chunks.                                    *)
ingestPDFFromURL(forceReindex, hash, nChunks, fail) ==
    LET i        == vectorStoreInitialize(vstore, IF fail = "initialize"
                                                  THEN "vectorStore" ELSE "none")
        rejected == i.threw \/ fail = "provider"
        inFetch  == fail \in {"fetch", "sizeLimit", "timeout", "parse"}
        checks   == ~forceReindex
        skipped  == checks /\ fail # "getDocuments" /\ pdfStore = hash
        caught   == \/ inFetch
                    \/ checks /\ fail = "getDocuments"
                    \/ ~skipped /\ fail = "delete"
                    \/ ~skipped /\ nChunks > 0 /\ fail \in {"embed", "add"}
        deleted  == ~rejected /\ ~inFetch /\ ~(checks /\ fail = "getDocuments")
                    /\ ~skipped /\ fail # "delete"
        success  == ~rejected /\ ~caught /\ (skipped \/ nChunks > 0)
    IN  /\ vstore' = i.vs
        /\ pdfStore' = IF ~deleted THEN pdfStore
                       ELSE IF success THEN hash ELSE "none"
        /\ lastPdf' = [op |-> "ingestPDFFromURL", fail |-> fail,
                       forceReindex |-> forceReindex, hash |-> hash,
                       failed |-> rejected \/ caught,
                       rejected |-> rejected,
                       success |-> success,
                       error |-> IF rejected THEN "none"
                                 ELSE IF caught THEN "message"
                                 ELSE IF success THEN "none"
                                 ELSE "No content could be extracted from the PDF"]
        /\ UNCHANGED <<servicesInitialized, calls, created, lastOp, fetches, staging,
                       varsIngest, varsRetrieve, varsQueue, varsServer, varsPlan,
                       varsAgent, varsCache,
                   varsEmbed, varsWatch, varsChunk, varsFacade, varsRace, varsHistory>>

(* removePDF(url): initialize and deleteByFilePath, neither inside a try.  *)
removePDF(fail) ==
    LET i        == vectorStoreInitialize(vstore, IF fail = "initialize"
                                                  THEN "vectorStore" ELSE "none")
        rejected == i.threw \/ fail = "delete"
    IN  /\ vstore' = i.vs
        /\ pdfStore' = IF rejected THEN pdfStore ELSE "none"
        /\ lastPdf' = [op |-> "removePDF", fail |-> fail, rejected |-> rejected]
        /\ UNCHANGED <<servicesInitialized, calls, created, lastOp, fetches, staging,
                       varsIngest, varsRetrieve, varsQueue, varsServer, varsPlan,
                       varsAgent, varsCache,
                   varsEmbed, varsWatch, varsChunk, varsFacade, varsRace, varsHistory>>

InitPdf ==
    /\ IdlePdf
    /\ IdleIngest /\ IdleRetrieve /\ IdleQueue /\ IdleStore /\ IdleServer
    /\ IdlePlan /\ IdleAgent /\ IdleCache
    /\ IdleRest

NextPdf ==
    \/ \E force \in BOOLEAN, hash \in PdfHashes, n \in 0..1, fail \in PdfFailPoints :
          ingestPDFFromURL(force, hash, n, fail)
    \/ \E fail \in {"none", "initialize", "delete"} : removePDF(fail)

SpecPdf == InitPdf /\ [][NextPdf]_vars

(* C19: ingestPDFFromURL never rejects; every failure is returned as a     *)
(* result with success false and an error message.                         *)
C19_PdfIngestionNeverRejects ==
    lastPdf.op = "ingestPDFFromURL" =>
        /\ ~lastPdf.rejected
        /\ lastPdf.failed => (~lastPdf.success /\ lastPdf.error # "none")

----------------------------------------------------------------------------
(* PDFFetcher.fetchAndParse.  Sizes are in MB, scaled: the default ceiling *)
(* of 50 MB is 2.                                                          *)

defaultMaxSizeMB == 2

(* Bound: the largest size a response declares or a download has.         *)
MaxSizeMB == 3

(* DEFAULT_OPTIONS.timeout, 60,000 ms, in units of 60,000 ms.              *)
defaultTimeout == 1

(* Bound: the longest time a request is followed.                          *)
MaxElapsed == 2

(* The ceiling the caller set, or the default when the caller set none.    *)
ceilingMB(f) == IF f.given = "number" THEN f.value ELSE defaultMaxSizeMB

(* size > opts.maxSizeMB with opts = {...DEFAULT_OPTIONS, ...options}: a   *)
(* maxSizeMB key present with the value undefined replaces the default,    *)
(* and a comparison with undefined is false.                               *)
exceedsMaxSize(size, f) ==
    IF f.given = "undefined" THEN FALSE
    ELSE IF f.given = "number" THEN size > f.value
    ELSE size > defaultMaxSizeMB

(* The call settles without the cleanup of the finally block.             *)
fetchSettles_noCleanup(c, outcome) ==
    /\ fetches' = [fetches EXCEPT ![c].pc = "settled", ![c].outcome = outcome,
                                  ![c].elapsed = 0]
    /\ staging' = staging

(* finally { try { await unlink(tempFilePath) } catch {} }, then the call  *)
(* settles.                                                                *)
fetchSettles(c, outcome) ==
    /\ fetches' = [fetches EXCEPT ![c].pc = "settled", ![c].outcome = outcome,
                                  ![c].elapsed = 0]
    /\ staging' = "absent"

(* fetchAndParse up to await fetch(url).                                   *)
fetchAndParseBegins(c, given, value) ==
    /\ fetches[c].pc \in {"idle", "settled"}
    /\ fetches' = [fetches EXCEPT ![c] =
                     [NoFetch EXCEPT !.pc = "fetching", !.given = given,
                                     !.value = IF given = "number" THEN value ELSE 0]]
    /\ UNCHANGED <<staging, pdfStore, lastPdf, varsIngest, varsRetrieve, varsQueue,
                   varsStore, varsServer, varsPlan, varsAgent, varsCache,
                   varsEmbed, varsWatch, varsChunk, varsFacade, varsRace, varsHistory>>

(* fetch rejects: network failure, or the timer set before fetch and       *)
(* cleared when fetch resolves has fired and aborted the request.          *)
fetchFails(c, reason) ==
    /\ fetches[c].pc = "fetching"
    /\ reason = "timeout" => fetches[c].elapsed >= defaultTimeout
    /\ fetchSettles(c, reason)
    /\ UNCHANGED <<pdfStore, lastPdf, varsIngest, varsRetrieve, varsQueue,
                   varsStore, varsServer, varsPlan, varsAgent, varsCache,
                   varsEmbed, varsWatch, varsChunk, varsFacade, varsRace, varsHistory>>

(* The response headers arrive: status, content-length and body checks,    *)
(* then createWriteStream(tempFilePath).                                   *)
responseArrives(c, ok, declared, hasBody) ==
    /\ fetches[c].pc = "fetching"
    /\ LET f == [fetches[c] EXCEPT !.declared = declared]
       IN  IF ~ok
           THEN fetchSettles(c, "httpStatus")
           ELSE IF declared > 0 /\ exceedsMaxSize(declared, f)
           THEN /\ fetches' = [fetches EXCEPT ![c] =
                                 [f EXCEPT !.pc = "settled", !.outcome = "sizeLimit",
                                           !.elapsed = 0]]
                /\ staging' = "absent"
           ELSE IF ~hasBody
           THEN /\ fetches' = [fetches EXCEPT ![c] =
                                 [f EXCEPT !.pc = "settled", !.outcome = "emptyBody",
                                           !.elapsed = 0]]
                /\ staging' = "absent"
           ELSE /\ fetches' = [fetches EXCEPT ![c] =
                                 [f EXCEPT !.pc = "downloading", !.created = TRUE]]
                /\ staging' = "partial"
    /\ UNCHANGED <<pdfStore, lastPdf, varsIngest, varsRetrieve, varsQueue,
                   varsStore, varsServer, varsPlan, varsAgent, varsCache,
                   varsEmbed, varsWatch, varsChunk, varsFacade, varsRace, varsHistory>>

(* pipeline settles; on success stat() gives the downloaded size, which is *)
(* checked again.                                                          *)
downloadSettles(c, ok, actual) ==
    /\ fetches[c].pc = "downloading"
    /\ IF ~ok \/ staging = "absent" THEN fetchSettles(c, "download")
       ELSE IF exceedsMaxSize(actual, fetches[c]) THEN fetchSettles(c, "sizeLimit")
       ELSE /\ fetches' = [fetches EXCEPT ![c].pc = "parsing", ![c].elapsed = 0]
            /\ staging' = "complete"
    /\ UNCHANGED <<pdfStore, lastPdf, varsIngest, varsRetrieve, varsQueue,
                   varsStore, varsServer, varsPlan, varsAgent, varsCache,
                   varsEmbed, varsWatch, varsChunk, varsFacade, varsRace, varsHistory>>

(* parsePDF reads the staging file and parses it.                          *)
parseSettles(c, ok) ==
    /\ fetches[c].pc = "parsing"
    /\ fetchSettles(c, IF ok /\ staging = "complete" THEN "parsed" ELSE "parse")
    /\ UNCHANGED <<pdfStore, lastPdf, varsIngest, varsRetrieve, varsQueue,
                   varsStore, varsServer, varsPlan, varsAgent, varsCache,
                   varsEmbed, varsWatch, varsChunk, varsFacade, varsRace, varsHistory>>

(* Time passes for the requests in flight.  While fetch is pending the     *)
(* abort timer is armed, so time does not pass the timeout before the      *)
(* timer fires; once fetch has resolved the timer is cleared and nothing   *)
(* bounds the transfer of the body.                                        *)
timePasses ==
    /\ \E c \in Fetchers : fetches[c].pc \in {"fetching", "downloading"}
                          /\ fetches[c].elapsed < MaxElapsed
    /\ \A c \in Fetchers : fetches[c].pc = "fetching" => fetches[c].elapsed < defaultTimeout
    /\ fetches' = [c \in Fetchers |->
                     IF fetches[c].pc \in {"fetching", "downloading"}
                        /\ fetches[c].elapsed < MaxElapsed
                     THEN [fetches[c] EXCEPT !.elapsed = @ + 1]
                     ELSE fetches[c]]
    /\ UNCHANGED <<staging, pdfStore, lastPdf, varsIngest, varsRetrieve, varsQueue,
                   varsStore, varsServer, varsPlan, varsAgent, varsCache,
                   varsEmbed, varsWatch, varsChunk, varsFacade, varsRace, varsHistory>>

InitFetch ==
    /\ IdlePdf
    /\ IdleIngest /\ IdleRetrieve /\ IdleQueue /\ IdleStore /\ IdleServer
    /\ IdlePlan /\ IdleAgent /\ IdleCache
    /\ IdleRest

NextFetch ==
    \/ \E c \in Fetchers, given \in {"absent", "undefined", "number"}, value \in {1} :
          fetchAndParseBegins(c, given, value)
    \/ \E c \in Fetchers, reason \in {"network", "timeout"} : fetchFails(c, reason)
    \/ \E c \in Fetchers, ok \in BOOLEAN, declared \in 0..MaxSizeMB, hasBody \in BOOLEAN :
          responseArrives(c, ok, declared, hasBody)
    \/ \E c \in Fetchers, ok \in BOOLEAN, actual \in 1..MaxSizeMB :
          downloadSettles(c, ok, actual)
    \/ \E c \in Fetchers, ok \in BOOLEAN : parseSettles(c, ok)
    \/ timePasses

SpecFetch == InitFetch /\ [][NextFetch]_vars

(* C20: when the response declares a content-length above the ceiling      *)
(* (the caller's maxSizeMB, 50 MB when the caller set none), the call      *)
(* fails with the size-limit failure and never creates the staging file.   *)
C20_DeclaredTooLargeWritesNothing ==
    \A c \in Fetchers :
        fetches[c].declared > ceilingMB(fetches[c]) =>
            /\ ~fetches[c].created
            /\ fetches[c].pc = "settled"
            /\ fetches[c].outcome = "sizeLimit"

(* C21: when a call to fetchAndParse has completed, whatever its outcome,  *)
(* and no other download to the same staging path is under way, the        *)
(* staging file is not on disk.                                            *)
C21_NoStagingFileRemains ==
    \A c \in Fetchers :
        (/\ fetches[c].pc = "settled"
         /\ \A d \in Fetchers : fetches[d].pc \notin {"downloading", "parsing"})
        => staging = "absent"

(* A call that created the staging file has completed with a parse failure *)
(* and nothing is in flight.                                               *)
C21_Witness ==
    \E c \in Fetchers :
        /\ fetches[c].pc = "settled"
        /\ fetches[c].created
        /\ fetches[c].outcome = "parse"
        /\ \A d \in Fetchers : fetches[d].pc \in {"idle", "settled"}
        /\ staging = "absent"

(* C22: no request of a fetch, waiting for the response headers or         *)
(* transferring the body, is in flight for longer than the timeout.        *)
C22_NoFetchBeyondTimeout ==
    \A c \in Fetchers :
        fetches[c].pc \in {"fetching", "downloading"} =>
            fetches[c].elapsed <= defaultTimeout

----------------------------------------------------------------------------
(* OpenAIEmbeddingProvider / VoyageEmbeddingProvider: generateEmbeddings   *)
(* sends the texts batch by batch, each batch request wrapped in pRetry.   *)

(* ConfigSchema.embeddings.maxRetries; the Voyage provider passes the      *)
(* literal 3.                                                              *)
defaultMaxRetries == 3

(* ConfigSchema.embeddings.batchSize (100), scaled.                        *)
batchSize == 2

MaxTexts == 4

batchCount(n) == (n + batchSize - 1) \div batchSize

batchLength(n, b) == IF b * batchSize <= n THEN batchSize ELSE n - (b - 1) * batchSize

(* pRetry(fn, {retries}): fn runs once, and again after each failure until *)
(* `retries` retries have been made; the last error is then rethrown.      *)
pRetryGivesUp(attemptNumber, retries) == attemptNumber > retries

(* generateEmbeddings up to the first processBatch call.                   *)
generateEmbeddings(n) ==
    /\ embed.pc \in {"idle", "returned", "rejected"}
    /\ embed' = [pc       |-> IF n = 0 THEN "returned" ELSE "batch",
                 texts    |-> n,
                 batch    |-> IF n = 0 THEN 0 ELSE 1,
                 attempts |-> <<>>,
                 produced |-> 0]
    /\ UNCHANGED <<varsIngest, varsRetrieve, varsQueue, varsStore, varsServer, varsPlan,
                   varsAgent, varsCache, varsPdf, varsWatch, varsChunk, varsFacade, varsRace, varsHistory>>

(* The batch's embeddings are in hand: next batch, or return.              *)
batchDone(e) ==
    LET done == [e EXCEPT !.produced = @ + batchLength(e.texts, e.batch)]
    IN  IF e.batch = batchCount(e.texts)
        THEN [done EXCEPT !.pc = "returned"]
        ELSE [done EXCEPT !.pc = "batch", !.batch = @ + 1]

(* processBatch up to the request: texts found in the cache are not sent.  *)
processBatch(allCached) ==
    /\ embed.pc = "batch"
    /\ LET e == [embed EXCEPT !.attempts = Append(@, 0)]
       IN  embed' = IF allCached THEN batchDone(e)
                    ELSE [e EXCEPT !.pc = "attempting"]
    /\ UNCHANGED <<varsIngest, varsRetrieve, varsQueue, varsStore, varsServer, varsPlan,
                   varsAgent, varsCache, varsPdf, varsWatch, varsChunk, varsFacade, varsRace, varsHistory>>

(* One run of client.embeddings.create inside pRetry.                      *)
requestAttempt(ok) ==
    /\ embed.pc = "attempting"
    /\ LET e == [embed EXCEPT !.attempts[embed.batch] = @ + 1]
       IN  embed' = IF ok THEN batchDone(e)
                    ELSE IF pRetryGivesUp(e.attempts[e.batch], defaultMaxRetries)
                    THEN [e EXCEPT !.pc = "rejected"]
                    ELSE e
    /\ UNCHANGED <<varsIngest, varsRetrieve, varsQueue, varsStore, varsServer, varsPlan,
                   varsAgent, varsCache, varsPdf, varsWatch, varsChunk, varsFacade, varsRace, varsHistory>>

InitEmbed ==
    /\ IdleEmbed
    /\ IdleIngest /\ IdleRetrieve /\ IdleQueue /\ IdleStore /\ IdleServer
    /\ IdlePlan /\ IdleAgent /\ IdleCache /\ IdlePdf
    /\ IdleWatch /\ IdleChunk /\ IdleFacade /\ IdleRace /\ IdleHistory

NextEmbed ==
    \/ \E n \in 0..MaxTexts : generateEmbeddings(n)
    \/ \E allCached \in BOOLEAN : processBatch(allCached)
    \/ \E ok \in BOOLEAN : requestAttempt(ok)

SpecEmbed == InitEmbed /\ [][NextEmbed]_vars

(* C23: with maxRetries 3, a batch request that keeps failing is attempted *)
(* at most 3 times in total, and the call then fails.                      *)
C23_AtMostThreeAttempts ==
    /\ \A b \in 1..Len(embed.attempts) : embed.attempts[b] <= defaultMaxRetries
    /\ embed.pc = "rejected" => embed.attempts[embed.batch] = defaultMaxRetries

----------------------------------------------------------------------------
(* DocumentIngestionService watch mode.                                    *)

MaxWatchers == 2

MaxEvents == 3

(* this.watcher = chokidar.watch(...) and the three handlers; a watcher    *)
(* already held in this.watcher is overwritten, not closed.                *)
startWatching ==
    /\ watch.running
    /\ watch.started < MaxWatchers
    /\ watch' = [watch EXCEPT !.started = @ + 1,
                              !.watcher = watch.started + 1,
                              !.attached = @ \cup {watch.started + 1},
                              !.last = "started"]
    /\ UNCHANGED <<varsIngest, varsRetrieve, varsQueue, varsStore, varsServer, varsPlan,
                   varsAgent, varsCache, varsPdf, varsEmbed, varsChunk, varsFacade, varsRace, varsHistory>>

(* if (this.watcher) { this.watcher.close(); this.watcher = null }         *)
stopWatching ==
    /\ watch.running
    /\ watch' = IF watch.watcher # 0
                THEN [watch EXCEPT !.attached = @ \ {watch.watcher},
                                   !.watcher = 0,
                                   !.last = "stopped"]
                ELSE [watch EXCEPT !.last = "stopped"]
    /\ UNCHANGED <<varsIngest, varsRetrieve, varsQueue, varsStore, varsServer, varsPlan,
                   varsAgent, varsCache, varsPdf, varsEmbed, varsChunk, varsFacade, varsRace, varsHistory>>

(* A promise rejected with no handler attached: Node (18+, the default     *)
(* unhandled-rejections mode) raises it as an uncaught exception and the   *)
(* process exits.                                                          *)
unhandledRejection(w) ==
    [w EXCEPT !.running = FALSE, !.attached = {}, !.watcher = 0,
              !.inflight = <<>>, !.last = "failed"]

(* An attached watcher emits add, change or unlink: the async handler      *)
(* starts and awaits ingestFile (supported extensions only) or removeFile. *)
fileEvent(w, kind, supported) ==
    /\ watch.running
    /\ w \in watch.attached
    /\ Len(watch.inflight) < MaxEvents
    /\ watch' =
         IF kind \in {"add", "change"} /\ ~supported
         THEN [watch EXCEPT !.last = "ignored"]
         ELSE [watch EXCEPT !.inflight = Append(@, kind), !.last = "event"]
    /\ UNCHANGED <<varsIngest, varsRetrieve, varsQueue, varsStore, varsServer, varsPlan,
                   varsAgent, varsCache, varsPdf, varsEmbed, varsChunk, varsFacade, varsRace, varsHistory>>

(* The awaited ingestFile / removeFile settles.  The handlers have no      *)
(* try/catch and nothing awaits them: when the call rejects (a store       *)
(* error, an embedding call failing after its retries) the handler's       *)
(* promise is rejected with no handler attached.                           *)
handlerSettles(i, ok) ==
    /\ watch.running
    /\ i \in 1..Len(watch.inflight)
    /\ watch' =
         IF ok
         THEN [watch EXCEPT
                 !.inflight = SubSeq(@, 1, i - 1) \o SubSeq(@, i + 1, Len(@)),
                 !.handled = IF @ < MaxEvents THEN @ + 1 ELSE @,
                 !.last = IF watch.inflight[i] = "unlink" THEN "removed" ELSE "ingested"]
         ELSE unhandledRejection(watch)
    /\ UNCHANGED <<varsIngest, varsRetrieve, varsQueue, varsStore, varsServer, varsPlan,
                   varsAgent, varsCache, varsPdf, varsEmbed, varsChunk, varsFacade, varsRace, varsHistory>>

InitWatch ==
    /\ IdleWatch
    /\ IdleIngest /\ IdleRetrieve /\ IdleQueue /\ IdleStore /\ IdleServer
    /\ IdlePlan /\ IdleAgent /\ IdleCache /\ IdlePdf
    /\ IdleEmbed /\ IdleChunk /\ IdleFacade /\ IdleRace /\ IdleHistory

NextWatch ==
    \/ startWatching
    \/ stopWatching
    \/ \E w \in 1..MaxWatchers, kind \in {"add", "change", "unlink"},
          supported \in BOOLEAN :
          fileEvent(w, kind, supported)
    \/ \E i \in 1..MaxEvents, ok \in BOOLEAN : handlerSettles(i, ok)

SpecWatch == InitWatch /\ [][NextWatch]_vars

(* C24: a failure while handling one file event does not end the process   *)
(* or the watcher; later file events are still processed.                  *)
C24_EventFailureContained ==
    watch.last = "failed" => watch.running /\ watch.attached # {}

(* C28: after stopWatching has returned no watcher started by the service  *)
(* remains attached, whatever startWatching and stopWatching calls came    *)
(* before.                                                                 *)
C28_StopDetachesEveryWatcher ==
    watch.last = "stopped" => watch.attached = {}

----------------------------------------------------------------------------
(* DocumentChunker as a function of its input.                             *)

MaxLines == 3

(* The lines a content is made of: the empty line, plain lines, a markdown *)
(* heading, a line matching a code boundary pattern, a code fence.         *)
ChunkLines ==
    {Line(0, "plain"), Line(1, "plain"), Line(3, "plain"),
     Line(2, "heading"), Line(3, "boundary"), Line(3, "fence")}

(* content.split('\n') of any string has at least one element; the empty   *)
(* string is the single empty line.                                        *)
DocumentInputs ==
    {[op |-> "input", content |-> c, fileType |-> t, pages |-> <<>>, chunks |-> <<>>] :
        c \in SeqsUpTo(ChunkLines, MaxLines) \ {<<>>}, t \in {".ts", ".md", ".txt"}}

callChunkDocument ==
    /\ chunked.op = "input"
    /\ chunked.fileType # ".pdf"
    /\ chunked' = [chunked EXCEPT
                     !.op = "chunkDocument",
                     !.chunks = chunkDocument(chunked.content, "doc", chunked.fileType)]
    /\ UNCHANGED <<varsIngest, varsRetrieve, varsQueue, varsStore, varsServer, varsPlan,
                   varsAgent, varsCache, varsPdf, varsEmbed, varsWatch, varsFacade, varsRace, varsHistory>>

(* PDF text.  A text is a sequence of the pieces that /\n\n+/ separates; a  *)
(* piece is the sequence of the lengths of its words, <<>> for a piece of  *)
(* white space only.  Words are separated by one space and each word ends  *)
(* with a full stop, so the sentences of a paragraph are its words.        *)
PdfParagraphs == {<<>>, <<1>>, <<3>>, <<1, 1>>, <<3, 3>>}

MaxParagraphs == 2

MaxPages == 2

RECURSIVE textLength(_)
textLength(words) ==
    IF words = <<>> THEN 0
    ELSE IF Len(words) = 1 THEN words[1]
    ELSE words[1] + 1 + textLength(Tail(words))

(* .split(/\n\n+/).filter(p => p.trim())                                   *)
paragraphsOf(text) == SelectSeq(text, LAMBDA q : q # <<>>)

RECURSIVE joinedWords(_)
joinedWords(paragraphs) ==
    IF paragraphs = <<>> THEN <<>> ELSE paragraphs[1] \o joinedWords(Tail(paragraphs))

(* The length of the paragraphs joined by '\n\n'.                          *)
RECURSIVE joinedLength(_)
joinedLength(paragraphs) ==
    IF paragraphs = <<>> THEN 0
    ELSE IF Len(paragraphs) = 1 THEN textLength(paragraphs[1])
    ELSE textLength(paragraphs[1]) + 2 + joinedLength(Tail(paragraphs))

RECURSIVE getTextOverlapFrom(_, _, _, _)
getTextOverlapFrom(words, i, overlapSize, overlapWords) ==
    IF i < 1 THEN overlapWords
    ELSE IF overlapSize + words[i] + 1 > chunkOverlap THEN overlapWords
    ELSE getTextOverlapFrom(words, i - 1, overlapSize + words[i] + 1,
                            <<words[i]>> \o overlapWords)

getTextOverlap(words) ==
    IF chunkOverlap <= 0 THEN <<>>
    ELSE getTextOverlapFrom(words, Len(words), 0, <<>>)

PdfChunk(words, startPage, endPage) ==
    [content |-> words, startLine |-> startPage, endLine |-> endPage]

(* if (currentContent.trim()) chunks.push(...)                             *)
pushIfText(chunks, words, startPage, endPage) ==
    IF words # <<>> THEN Append(chunks, PdfChunk(words, startPage, endPage)) ELSE chunks

RECURSIVE chunkPDFTextLoop(_, _, _, _, _, _)
chunkPDFTextLoop(paragraphs, i, currentContent, currentSize, chunkCount, chunks) ==
    IF i > Len(paragraphs)
    THEN pushIfText(chunks, currentContent, chunkCount + 1, chunkCount + 1)
    ELSE LET paragraph == paragraphs[i]
             paraSize  == textLength(paragraph)
         IN  IF currentSize + paraSize > chunkSize /\ currentContent # <<>>
             THEN LET overlapContent == getTextOverlap(currentContent)
                  IN  chunkPDFTextLoop(paragraphs, i + 1, overlapContent \o paragraph,
                                       textLength(overlapContent) + 2 + paraSize,
                                       chunkCount + 1,
                                       Append(chunks, PdfChunk(currentContent,
                                                               chunkCount + 1,
                                                               chunkCount + 1)))
             ELSE chunkPDFTextLoop(paragraphs, i + 1, currentContent \o paragraph,
                                   currentSize + paraSize + 2, chunkCount, chunks)

chunkPDFText(content) == chunkPDFTextLoop(paragraphsOf(content), 1, <<>>, 0, 0, <<>>)

(* The sentence loop of chunkLargePage; a sentence after the first carries *)
(* the space before it.                                                    *)
RECURSIVE sentenceLoop(_, _, _, _, _, _)
sentenceLoop(sentences, j, currentContent, currentSize, pageNumber, chunks) ==
    IF j > Len(sentences)
    THEN [content |-> currentContent, size |-> currentSize, chunks |-> chunks]
    ELSE LET length == IF j = 1 THEN sentences[j] ELSE sentences[j] + 1
         IN  IF currentSize + length > chunkSize /\ currentContent # <<>>
             THEN sentenceLoop(sentences, j + 1, <<sentences[j]>>, length, pageNumber,
                               Append(chunks, PdfChunk(currentContent, pageNumber,
                                                       pageNumber)))
             ELSE sentenceLoop(sentences, j + 1, currentContent \o <<sentences[j]>>,
                               currentSize + length + 1, pageNumber, chunks)

RECURSIVE chunkLargePageLoop(_, _, _, _, _, _)
chunkLargePageLoop(paragraphs, i, currentContent, currentSize, pageNumber, chunks) ==
    IF i > Len(paragraphs)
    THEN pushIfText(chunks, currentContent, pageNumber, pageNumber)
    ELSE LET paragraph == paragraphs[i]
             paraSize  == textLength(paragraph)
             saved     == pushIfText(chunks, currentContent, pageNumber, pageNumber)
         IN  IF paraSize > chunkSize
             THEN LET r == sentenceLoop(paragraph, 1, <<>>,
                                        IF currentContent # <<>> THEN 0 ELSE currentSize,
                                        pageNumber, saved)
                  IN  chunkLargePageLoop(paragraphs, i + 1, r.content, r.size,
                                         pageNumber, r.chunks)
             ELSE IF currentSize + paraSize > chunkSize
             THEN chunkLargePageLoop(paragraphs, i + 1, paragraph, paraSize,
                                     pageNumber, saved)
             ELSE chunkLargePageLoop(paragraphs, i + 1, currentContent \o paragraph,
                                     currentSize + paraSize + 2, pageNumber, chunks)

chunkLargePage(pageContent, pageNumber) ==
    chunkLargePageLoop(paragraphsOf(pageContent), 1, <<>>, 0, pageNumber, <<>>)

(* chunkPDFByPages; currentChunk = null is the empty currentContent.  The  *)
(* trimmed content of a page is taken as its paragraphs joined by '\n\n'.  *)
RECURSIVE chunkPDFByPagesLoop(_, _, _, _, _, _, _)
chunkPDFByPagesLoop(pages, i, currentContent, startPage, endPage, currentSize, chunks) ==
    IF i > Len(pages)
    THEN pushIfText(chunks, currentContent, startPage, endPage)
    ELSE LET pageContent == paragraphsOf(pages[i])
             pageSize    == joinedLength(pageContent)
             saved       == pushIfText(chunks, currentContent, startPage, endPage)
         IN  IF pageContent = <<>>
             THEN chunkPDFByPagesLoop(pages, i + 1, currentContent, startPage, endPage,
                                      currentSize, chunks)
             ELSE IF pageSize > chunkSize
             THEN chunkPDFByPagesLoop(pages, i + 1, <<>>, 0, 0,
                                      IF currentContent # <<>> THEN 0 ELSE currentSize,
                                      saved \o chunkLargePage(pageContent, i))
             ELSE IF currentContent # <<>> /\ currentSize + pageSize > chunkSize
             THEN chunkPDFByPagesLoop(pages, i + 1, joinedWords(pageContent), i, i,
                                      pageSize, saved)
             ELSE IF currentContent = <<>>
             THEN chunkPDFByPagesLoop(pages, i + 1, joinedWords(pageContent), i, i,
                                      pageSize, chunks)
             ELSE chunkPDFByPagesLoop(pages, i + 1,
                                      currentContent \o joinedWords(pageContent),
                                      startPage, i, currentSize + pageSize + 2, chunks)

chunkPDFByPages(pages) == chunkPDFByPagesLoop(pages, 1, <<>>, 0, 0, 0, <<>>)

(* chunkPDFDocument: by pages when options.pages has pages, else by text.  *)
chunkPDFDocument(content, sourcePath, pages) ==
    LET rawChunks == IF Len(pages) > 0 THEN chunkPDFByPages(pages)
                     ELSE chunkPDFText(content)
    IN  [index \in 1..Len(rawChunks) |->
            [id       |-> generateDocumentId(sourcePath, index - 1),
             content  |-> rawChunks[index].content,
             metadata |-> [filePath    |-> sourcePath,
                           fileType    |-> ".pdf",
                           chunkIndex  |-> index - 1,
                           totalChunks |-> Len(rawChunks),
                           startLine   |-> rawChunks[index].startLine,
                           endLine     |-> rawChunks[index].endLine,
                           hash        |-> hashContent(rawChunks[index].content)]]]

PdfTexts == SeqsUpTo(PdfParagraphs, MaxParagraphs)

(* A PDF with no page structure, or with pages; with pages the text is the *)
(* pages put together.                                                     *)
PdfInputs ==
    {[op |-> "input", content |-> c, fileType |-> ".pdf", pages |-> <<>>,
      chunks |-> <<>>] : c \in PdfTexts}
    \cup
    {[op |-> "input", content |-> joinedWords(ps), fileType |-> ".pdf", pages |-> ps,
      chunks |-> <<>>] : ps \in SeqsUpTo(PdfTexts, MaxPages) \ {<<>>}}

callChunkPDFDocument ==
    /\ chunked.op = "input"
    /\ chunked.fileType = ".pdf"
    /\ chunked' = [chunked EXCEPT
                     !.op = "chunkPDFDocument",
                     !.chunks = chunkPDFDocument(chunked.content, "doc", chunked.pages)]
    /\ UNCHANGED <<varsIngest, varsRetrieve, varsQueue, varsStore, varsServer, varsPlan,
                   varsAgent, varsCache, varsPdf, varsEmbed, varsWatch, varsFacade, varsRace, varsHistory>>

InitChunk ==
    /\ \/ chunked \in DocumentInputs
       \/ chunked \in PdfInputs
    /\ IdleIngest /\ IdleRetrieve /\ IdleQueue /\ IdleStore /\ IdleServer
    /\ IdlePlan /\ IdleAgent /\ IdleCache /\ IdlePdf
    /\ IdleEmbed /\ IdleWatch /\ IdleFacade /\ IdleRace /\ IdleHistory

NextChunk ==
    \/ callChunkDocument
    \/ callChunkPDFDocument

SpecChunk == InitChunk /\ [][NextChunk]_vars

(* C25: chunkDocument returns at least one chunk for every content, the    *)
(* empty string included, and every file category.                         *)
C25_AtLeastOneChunk ==
    chunked.op = "chunkDocument" => Len(chunked.chunks) >= 1

(* The empty string chunked as plain text gives one chunk.                 *)
C25_Witness ==
    /\ chunked.op = "chunkDocument"
    /\ chunked.fileType = ".txt"
    /\ chunked.content = <<Line(0, "plain")>>
    /\ Len(chunked.chunks) = 1

(* The PDF holds no text: no pages and a text of white space only, or      *)
(* pages each of white space only.                                         *)
PdfIsEmpty(c) ==
    IF Len(c.pages) > 0
    THEN \A i \in 1..Len(c.pages) : paragraphsOf(c.pages[i]) = <<>>
    ELSE paragraphsOf(c.content) = <<>>

(* C26: chunkPDFDocument returns exactly one chunk for a PDF whose content *)
(* is empty, with or without page structure.                               *)
C26_EmptyPdfGivesOneChunk ==
    (chunked.op = "chunkPDFDocument" /\ PdfIsEmpty(chunked)) => Len(chunked.chunks) = 1

----------------------------------------------------------------------------
(* CacheManager, the generic cache: rconfig.cacheEnabled is its enabled    *)
(* flag, rcache its LRUCache, lastRetrieve its latest call.                *)

CacheManagerKeys == {"k1", "k2", "k3"}

CacheManagerValues == {"v1", "v2"}

CacheManagerCall(op, key, result, cache) ==
    /\ rcache' = cache
    /\ lastRetrieve' = [op |-> op, key |-> key, result |-> result, size |-> Len(cache)]
    /\ UNCHANGED <<collection, rconfig, varsIngest, varsQueue, varsStore, varsServer,
                   varsPlan, varsAgent, varsCache, varsPdf, varsEmbed, varsWatch,
                   varsChunk, varsFacade, varsRace, varsHistory>>

(* set without the check of the enabled flag.                              *)
cacheManagerSet_unguarded(key, value) ==
    CacheManagerCall("set", key, "void", cacheSet(rcache, key, value))

cacheManagerSet(key, value) ==
    CacheManagerCall("set", key, "void",
                     IF ~rconfig.cacheEnabled THEN rcache
                     ELSE cacheSet(rcache, key, value))

cacheManagerGet(key) ==
    IF rconfig.cacheEnabled /\ cacheHas(rcache, key)
    THEN CacheManagerCall("get", key, rcache[cacheValue(rcache, key)][2],
                          cacheGet(rcache, key))
    ELSE CacheManagerCall("get", key, "undefined", rcache)

cacheManagerHas(key) ==
    CacheManagerCall("has", key,
                     IF rconfig.cacheEnabled /\ cacheHas(rcache, key)
                     THEN "true" ELSE "false",
                     rcache)

(* delete and clear do not look at the enabled flag.                       *)
cacheManagerDelete(key) ==
    CacheManagerCall("delete", key,
                     IF cacheHas(rcache, key) THEN "true" ELSE "false",
                     cacheRemove(rcache, key))

cacheManagerClear ==
    CacheManagerCall("clear", "none", "void", <<>>)

InitCacheManager ==
    /\ collection = {}
    /\ rcache = <<>>
    /\ \E enabled \in BOOLEAN :
          rconfig = [hybrid |-> TRUE, reranking |-> TRUE, anthropic |-> FALSE,
                     cacheEnabled |-> enabled]
    /\ lastRetrieve = NoRetrieve
    /\ IdleIngest /\ IdleQueue /\ IdleStore /\ IdleServer
    /\ IdlePlan /\ IdleAgent /\ IdleCache /\ IdlePdf
    /\ IdleRest

NextCacheManager ==
    \/ \E key \in CacheManagerKeys, value \in CacheManagerValues :
          cacheManagerSet(key, value)
    \/ \E key \in CacheManagerKeys : cacheManagerGet(key)
    \/ \E key \in CacheManagerKeys : cacheManagerHas(key)
    \/ \E key \in CacheManagerKeys : cacheManagerDelete(key)
    \/ cacheManagerClear

SpecCacheManager == InitCacheManager /\ [][NextCacheManager]_vars

(* C27: a cache constructed with enabled false stores nothing, every get   *)
(* reports absent and every has reports false.                             *)
C27_DisabledCacheHoldsNothing ==
    ~rconfig.cacheEnabled =>
        /\ rcache = <<>>
        /\ lastRetrieve.op # "none" => lastRetrieve.size = 0
        /\ lastRetrieve.op = "get" => lastRetrieve.result = "undefined"
        /\ lastRetrieve.op = "has" => lastRetrieve.result = "false"

(* set has been called on a disabled cache.                                *)
C27_Witness ==
    /\ ~rconfig.cacheEnabled
    /\ lastRetrieve.op = "set"
    /\ lastRetrieve.size = 0

----------------------------------------------------------------------------
(* ClaudeRAG, the programmatic facade.                                     *)

ApiKeys == {"OPENAI_API_KEY", "VOYAGE_API_KEY", "ANTHROPIC_API_KEY"}

(* BaseAgent's constructor, run for the orchestrator and its three agents. *)
baseAgentConstructorThrows(env) == "ANTHROPIC_API_KEY" \notin env

(* new ClaudeRAG(): this.orchestrator = createOrchestrator().              *)
newClaudeRAG ==
    /\ facade.instance # "constructed"
    /\ facade' = IF baseAgentConstructorThrows(facade.env)
                 THEN [facade EXCEPT !.instance = "threw", !.op = "new",
                                     !.fail = "none", !.threw = TRUE,
                                     !.error = "ANTHROPIC_API_KEY required"]
                 ELSE [facade EXCEPT !.instance = "constructed", !.op = "new",
                                     !.fail = "none", !.threw = FALSE,
                                     !.error = "none"]
    /\ UNCHANGED <<varsIngest, varsRetrieve, varsQueue, varsStore, varsServer, varsPlan,
                   varsAgent, varsCache, varsPdf, varsEmbed, varsWatch, varsChunk, varsRace, varsHistory>>

FacadeOps == {"index", "search", "query", "getStatus", "clear"}

FacadeFailures == {"none", "vectorStore", "database", "completion"}

(* ClaudeRAG.initialize(): if (this.initialized) return; else the store's  *)
(* initialize() and this.initialized = true.                               *)
facadeInitialize(f, vs, fail) ==
    IF f.initialized THEN [threw |-> FALSE, vs |-> vs, initialized |-> TRUE]
    ELSE LET i == vectorStoreInitialize(vs, fail)
         IN  [threw |-> i.threw, vs |-> i.vs, initialized |-> ~i.threw]

(* What the call does after this.initialize().  index and search go        *)
(* through ingestDirectory and the retriever, which call the store's       *)
(* initialize() themselves; index collects the failures of its files in    *)
(* stats.errors.  getStatus calls getDocumentCount, which refuses an       *)
(* uninitialized store; clear calls deleteCollection.  query runs the      *)
(* orchestrator, whose final synthesizer call rejects when the completion  *)
(* request fails.                                                          *)
facadeBody(op, vs, fail) ==
    LET i == vectorStoreInitialize(vs, fail)
    IN  IF op = "query"
        THEN IF fail = "completion"
             THEN [threw |-> TRUE, error |-> "CompletionError", vs |-> vs]
             ELSE [threw |-> FALSE, error |-> "none", vs |-> vs]
        ELSE IF op \in {"index", "search"}
        THEN IF i.threw THEN [threw |-> TRUE, error |-> "ConnectionError", vs |-> vs]
             ELSE IF op = "search" /\ fail = "database"
             THEN [threw |-> TRUE, error |-> "DatabaseError", vs |-> i.vs]
             ELSE [threw |-> FALSE, error |-> "none", vs |-> i.vs]
        ELSE IF op = "getStatus" /\ ~ensureInitialized(vs)
        THEN [threw |-> TRUE, error |-> "NotInitialized", vs |-> vs]
        ELSE IF fail = "database"
        THEN [threw |-> TRUE, error |-> "DatabaseError", vs |-> vs]
        ELSE IF op = "clear"
        THEN [threw |-> FALSE, error |-> "none",
              vs |-> [initialized |-> FALSE, collection |-> FALSE]]
        ELSE [threw |-> FALSE, error |-> "none", vs |-> vs]

facadeCall(op, fail) ==
    /\ facade.instance = "constructed"
    /\ LET i == facadeInitialize(facade, vstore, fail)
           b == facadeBody(op, i.vs, fail)
       IN  IF i.threw
           THEN /\ facade' = [facade EXCEPT !.op = op, !.fail = fail, !.threw = TRUE,
                                            !.error = "ConnectionError"]
                /\ vstore' = i.vs
           ELSE /\ facade' = [facade EXCEPT !.initialized = i.initialized, !.op = op,
                                            !.fail = fail, !.threw = b.threw,
                                            !.error = b.error]
                /\ vstore' = b.vs
    /\ UNCHANGED <<servicesInitialized, calls, created, lastOp, varsIngest, varsRetrieve,
                   varsQueue, varsServer, varsPlan, varsAgent, varsCache, varsPdf,
                   varsEmbed, varsWatch, varsChunk, varsRace, varsHistory>>

InitFacade ==
    /\ \E env \in SUBSET ApiKeys : facade = [NoFacade EXCEPT !.env = env]
    /\ IdleIngest /\ IdleRetrieve /\ IdleQueue /\ IdleStore /\ IdleServer
    /\ IdlePlan /\ IdleAgent /\ IdleCache /\ IdlePdf
    /\ IdleEmbed /\ IdleWatch /\ IdleChunk /\ IdleRace /\ IdleHistory

NextFacade ==
    \/ newClaudeRAG
    \/ \E op \in FacadeOps, fail \in FacadeFailures : facadeCall(op, fail)

SpecFacade == InitFacade /\ [][NextFacade]_vars

(* C29: with no API key in the environment, new ClaudeRAG() succeeds, and  *)
(* index and search succeed when the services do not fail.                 *)
C29_KeylessFlowSucceeds ==
    (facade.env = {} /\ facade.op # "none") =>
        /\ facade.instance = "constructed"
        /\ (facade.op \in {"new", "index", "search"} /\ facade.fail = "none")
              => ~facade.threw

(* C30: whenever the in-memory hash table maps a path to the hash of a     *)
(* content, the store holds the chunks of that content for the path.       *)
C30_HashTableMatchesStore ==
    \A p \in Paths :
        fileHashes[p] # NoHash =>
            getDocumentsByFilePath(store, p)
               = chunkDocument(fileHashes[p][2], p, fileTypeOf(p))

(* C32: whenever the persistent cache is quiescent (not dirty, no save     *)
(* timer pending, no save in flight) the file holds every entry the cache  *)
(* holds.                                                                  *)
C32_QuiescentCacheIsOnDisk ==
    (/\ ~pcache.dirty
     /\ pcache.saveTimer = -1
     /\ \A w \in {"timer", "flush"} : saves[w].pc = "idle")
    => pcache.keys \subseteq cacheFile

----------------------------------------------------------------------------
(* Orchestrator.executePlan: the task statuses it leaves behind.           *)

(* C33: once executePlan has returned no task is running; of n tasks with  *)
(* maxIterations m exactly the first min(n, m) are completed or failed and *)
(* were started, the others are pending and were never started; while the  *)
(* loop runs a task is started only after every earlier one has finished.  *)
C33_FirstMinTasksFinished ==
    /\ orch.pc \in {"executed", "responded"} =>
          \A k \in 1..Len(plan.tasks) :
              IF k <= Min(Len(plan.tasks), orch.maxIterations)
              THEN plan.tasks[k].started /\ plan.tasks[k].status \in {"completed", "failed"}
              ELSE ~plan.tasks[k].started /\ plan.tasks[k].status = "pending"
    /\ orch.pc \in {"planned", "executing", "inTask"} =>
          \A k \in 1..Len(plan.tasks) :
              plan.tasks[k].started =>
                  \A j \in 1..(k - 1) : plan.tasks[j].status \in {"completed", "failed"}

(* C33 witness: executePlan returned from a three-task plan under          *)
(* maxIterations 2, the first task failed, the second completed, the third *)
(* never started.                                                          *)
C33_Witness ==
    /\ orch.pc = "executed"
    /\ Len(plan.tasks) = 3
    /\ orch.maxIterations = 2
    /\ plan.tasks[1].status = "failed"
    /\ plan.tasks[2].status = "completed"
    /\ plan.tasks[3].status = "pending"
    /\ ~plan.tasks[3].started

----------------------------------------------------------------------------
(* Re-ingestion of a path that is already indexed.                         *)

(* C35: a processFile call that throws leaves the path with a complete     *)
(* chunk set: either the store is as it was before the call, or the path   *)
(* still has chunks in it.                                                 *)
C35_FailedReingestionKeepsChunks ==
    (lastCall.op \in {"ingestFile", "ingestDirectory"} /\ lastCall.threw)
        => (lastCall.storeSame \/ getDocumentsByFilePath(store, lastCall.path) # <<>>)

----------------------------------------------------------------------------
(* ClaudeRAG: initialization on every use.                                 *)

(* C36: no call of the facade fails because the vector store is not        *)
(* initialized, whatever calls (clear() included) came before it.          *)
C36_FacadeNeverNotInitialized ==
    facade.op \in FacadeOps => facade.error # "NotInitialized"

----------------------------------------------------------------------------
(* Retriever.rerank: the shape of its result.                              *)

(* C38: the list rerank returns has at most topN results, each of them a   *)
(* document of the input list, and no document more than once.             *)
C38_RerankResultWellFormed ==
    lastRetrieve.op = "rerank" =>
        LET out == lastRetrieve.result
        IN  /\ Len(out) <= lastRetrieve.topN
            /\ \A i \in 1..Len(out) :
                  \E j \in 1..Len(lastRetrieve.results) :
                      lastRetrieve.results[j].id = out[i].id
            /\ \A i, j \in 1..Len(out) : i # j => out[i].id # out[j].id

----------------------------------------------------------------------------
(* PDFParser.fetchAndParse: concurrent calls for one URL.                  *)

(* C39: the staging file of a call that is still writing it is on disk,    *)
(* and the staging file of a call that is parsing it is the complete       *)
(* download: no other call's cleanup or download deletes or truncates it.  *)
C39_StagingFileNotDisturbed ==
    \A c \in Fetchers :
        /\ fetches[c].pc = "downloading" => staging # "absent"
        /\ fetches[c].pc = "parsing" => staging = "complete"

----------------------------------------------------------------------------
(* DocumentChunker: the line ranges of the chunks of text, code and        *)
(* markdown.                                                               *)

(* C40: the chunks of a plain-text, code or markdown content are in line   *)
(* order, each chunk holds exactly the lines startLine..endLine of the     *)
(* content (1-based), the first chunk starts at line 1, the last chunk     *)
(* ends at the last line, and every line is in at least one chunk.         *)
C40_ChunksCoverLinesInOrder ==
    chunked.op = "chunkDocument" =>
        LET lines  == chunked.content
            chunks == chunked.chunks
            from(k) == chunks[k].metadata.startLine
            to(k)   == chunks[k].metadata.endLine
        IN  /\ Len(chunks) >= 1
            /\ from(1) = 1
            /\ to(Len(chunks)) = Len(lines)
            /\ \A k \in 1..Len(chunks) :
                  /\ 1 <= from(k) /\ from(k) <= to(k) /\ to(k) <= Len(lines)
                  /\ chunks[k].content = SubSeq(lines, from(k), to(k))
            /\ \A k \in 1..(Len(chunks) - 1) :
                  from(k) <= from(k + 1) /\ to(k) <= to(k + 1)
            /\ \A n \in 1..Len(lines) :
                  \E k \in 1..Len(chunks) : from(k) <= n /\ n <= to(k)

(* C40 witness: a three-line code file was cut into two chunks that share  *)
(* the overlapping second line.                                            *)
C40_Witness ==
    /\ chunked.op = "chunkDocument"
    /\ chunked.fileType = ".ts"
    /\ Len(chunked.content) = 3
    /\ Len(chunked.chunks) = 2
    /\ chunked.chunks[1].metadata.endLine = 2
    /\ chunked.chunks[2].metadata.startLine = 2
    /\ chunked.chunks[2].metadata.endLine = 3

----------------------------------------------------------------------------
(* The steps that read JSON out of a completion.                           *)

(* C34: whatever text the planning completion holds (no JSON, unparseable  *)
(* braces, JSON without steps), createPlan does not throw and the query    *)
(* is not rejected by the planning step.                                   *)
C34_PlanningNeverThrows ==
    orch.planning \in PlanningResponses => orch.threw # "createPlan"

----------------------------------------------------------------------------
(* Concurrent ingestFile calls, as the watcher's add and change handlers   *)
(* start them: each handler awaits its own call and nothing orders the     *)
(* calls of different events.  A call is followed through its awaits:      *)
(* stat/readFile, deleteByFilePath, generateEmbeddings/addDocuments.       *)

(* stat, the size check and readFile.  A file above maxFileSize is skipped *)
(* before it is read.                                                      *)
processFileReads(c, p) ==
    /\ race.procs[c].pc \in {"idle", "done"}
    /\ disk[p] # NoFile
    /\ race' = IF FileSize(disk[p]) > maxFileSize
               THEN [race EXCEPT !.procs[c] = [NoProc EXCEPT !.pc = "done", !.path = p]]
               ELSE [race EXCEPT !.procs[c] = [NoProc EXCEPT !.pc = "read", !.path = p,
                                                            !.content = disk[p]],
                                 !.lastRead[p] = disk[p]]
    /\ UNCHANGED <<varsIngest, varsRetrieve, varsQueue, varsStore, varsServer, varsPlan,
                   varsAgent, varsCache, varsPdf, varsEmbed, varsWatch, varsChunk,
                   varsFacade, varsHistory>>

(* await vectorStore.deleteByFilePath(filePath)                            *)
processFileDeletes(c) ==
    /\ race.procs[c].pc = "read"
    /\ store' = deleteByFilePath(store, race.procs[c].path)
    /\ race' = [race EXCEPT !.procs[c].pc = "deleted"]
    /\ UNCHANGED <<disk, fileHashes, lastCall, indexed, varsRetrieve, varsQueue, varsStore,
                   varsServer, varsPlan, varsAgent, varsCache, varsPdf, varsEmbed,
                   varsWatch, varsChunk, varsFacade, varsHistory>>

(* The chunks are embedded and added under the ids                         *)
(* generateDocumentId(filePath, index), then the hash table is updated.    *)
(* When the collection already holds some of the ids, the collection       *)
(* either rejects the request or leaves the records it holds as they are.  *)
processFileAdds(c, onExisting) ==
    /\ race.procs[c].pc = "deleted"
    /\ LET p        == race.procs[c].path
           chunks   == chunkDocument(race.procs[c].content, p, fileTypeOf(p))
           held(d)  == \E i \in 1..Len(store) : store[i].id = d.id
           newOnes  == SelectSeq(chunks, LAMBDA d : ~held(d))
       IN  IF newOnes # chunks /\ onExisting = "rejected"
           THEN /\ race' = [race EXCEPT !.procs[c].pc = "done", !.procs[c].threw = TRUE]
                /\ UNCHANGED <<store, fileHashes>>
           ELSE /\ store' = addDocuments(store, newOnes)
                /\ fileHashes' = [fileHashes EXCEPT ![p] = hashContent(race.procs[c].content)]
                /\ race' = [race EXCEPT !.procs[c].pc = "done"]
    /\ UNCHANGED <<disk, lastCall, indexed, varsRetrieve, varsQueue, varsStore,
                   varsServer, varsPlan, varsAgent, varsCache, varsPdf, varsEmbed,
                   varsWatch, varsChunk, varsFacade, varsHistory>>

InitRace ==
    /\ disk \in [Paths -> Contents]
    /\ \A p \in Paths : disk[p] \in ContentsOf(p)
    /\ store = <<>>
    /\ fileHashes = [p \in Paths |-> NoHash]
    /\ lastCall = NoCall
    /\ indexed = [p \in Paths |-> NoFile]
    /\ race = NoRace
    /\ IdleRetrieve /\ IdleQueue /\ IdleStore /\ IdleServer /\ IdlePlan
    /\ IdleAgent /\ IdleCache /\ IdlePdf
    /\ IdleEmbed /\ IdleWatch /\ IdleChunk /\ IdleFacade /\ IdleHistory

NextRace ==
    \/ \E c \in Procs, p \in Paths : processFileReads(c, p)
    \/ \E c \in Procs : processFileDeletes(c)
    \/ \E c \in Procs, onExisting \in {"rejected", "ignored"} : processFileAdds(c, onExisting)
    \/ \E p \in Paths : \E c \in ContentsOf(p) : WriteFile(p, c)

SpecRace == InitRace /\ [][NextRace]_vars

(* C31: once every processFile call has finished, none of them having      *)
(* failed, the store holds for each path processed exactly the chunks of   *)
(* the content read last, and the hash table holds the hash of that        *)
(* content.                                                                *)
C31_LastReadWins ==
    (\A c \in Procs : race.procs[c].pc \in {"idle", "done"} /\ ~race.procs[c].threw) =>
        \A p \in Paths :
            race.lastRead[p] # NoFile =>
                /\ getDocumentsByFilePath(store, p)
                      = chunkDocument(race.lastRead[p], p, fileTypeOf(p))
                /\ fileHashes[p] = hashContent(race.lastRead[p])

----------------------------------------------------------------------------
(* BaseAgent.sendMessage and the conversation history it appends to.       *)

(* Messages the history may hold before no further call is followed.       *)
MaxHistory == 4

UserMessages == {"u1", "u2"}

AssistantTexts == {"a1", "a2"}

(* What anthropic.messages.create gives back: it rejects, its first block  *)
(* is not a text block, or its first block is a text.                      *)
CompletionOutcomes == {"throws", "nontext", "text"}

(* this.conversationHistory.push({role: 'user', ...}), then the request    *)
(* is awaited.                                                             *)
sendMessageBegins(userMessage) ==
    /\ conversation.awaiting = 0
    /\ Len(conversation.history) < MaxHistory
    /\ conversation' = [conversation EXCEPT
                           !.history = Append(@, [role |-> "user", content |-> userMessage]),
                           !.awaiting = 1,
                           !.threw = "none"]
    /\ UNCHANGED <<varsIngest, varsRetrieve, varsQueue, varsStore, varsServer, varsPlan,
                   varsAgent, varsCache, varsPdf, varsEmbed, varsWatch, varsChunk,
                   varsFacade, varsRace>>

(* The request settles: a rejection and a non-text first block leave       *)
(* sendMessage by an exception, a text block is pushed as the assistant's  *)
(* turn.                                                                   *)
sendMessageSettles(outcome, text) ==
    /\ conversation.awaiting = 1
    /\ conversation' =
          IF outcome = "text"
          THEN [conversation EXCEPT
                  !.history = Append(@, [role |-> "assistant", content |-> text]),
                  !.awaiting = 0]
          ELSE [conversation EXCEPT
                  !.awaiting = 0,
                  !.threw = IF outcome = "throws" THEN "CompletionError"
                            ELSE "UnexpectedResponseType"]
    /\ UNCHANGED <<varsIngest, varsRetrieve, varsQueue, varsStore, varsServer, varsPlan,
                   varsAgent, varsCache, varsPdf, varsEmbed, varsWatch, varsChunk,
                   varsFacade, varsRace>>

(* clearHistory(): this.conversationHistory = []                           *)
clearHistory ==
    /\ conversation.awaiting = 0
    /\ conversation.history # <<>>
    /\ conversation' = [conversation EXCEPT !.history = <<>>]
    /\ UNCHANGED <<varsIngest, varsRetrieve, varsQueue, varsStore, varsServer, varsPlan,
                   varsAgent, varsCache, varsPdf, varsEmbed, varsWatch, varsChunk,
                   varsFacade, varsRace>>

InitHistory ==
    /\ conversation = NoConversation
    /\ IdleIngest /\ IdleRetrieve /\ IdleQueue /\ IdleStore /\ IdleServer
    /\ IdlePlan /\ IdleAgent /\ IdleCache /\ IdlePdf
    /\ IdleEmbed /\ IdleWatch /\ IdleChunk /\ IdleFacade /\ IdleRace

NextHistory ==
    \/ \E userMessage \in UserMessages : sendMessageBegins(userMessage)
    \/ \E outcome \in CompletionOutcomes, text \in AssistantTexts :
          sendMessageSettles(outcome, text)
    \/ clearHistory

SpecHistory == InitHistory /\ [][NextHistory]_vars

(* C37: the history alternates user and assistant turns starting with a    *)
(* user turn, and between sendMessage calls it consists of complete        *)
(* exchanges: every user turn has its assistant reply.                     *)
C37_HistoryIsCompleteExchanges ==
    /\ \A i \in 1..Len(conversation.history) :
          conversation.history[i].role = IF i % 2 = 1 THEN "user" ELSE "assistant"
    /\ conversation.awaiting = 0 => Len(conversation.history) % 2 = 0

====
